---------------------------- MODULE Spec2Model ----------------------------
(***************************************************************************)
(* A state-machine model of djifix.c (version 2023-05-05): the repair of   *)
(* video files left corrupted by a recorder that lost power.               *)
(*                                                                         *)
(* The program is one sequential run of main(): the file-start classifier, *)
(* the box (atom) walk, the search for video / the JPEG-preview skip, the  *)
(* opening of the output file and one of five repair procedures.  Each     *)
(* action below is one iteration of one loop of the source (or one         *)
(* straight-line stage between two loops); "pc" names the place in the     *)
(* source where the run is.                                                *)
(*                                                                         *)
(* Conventions.  "pos" is the value ftell(inputFID) would return, counted  *)
(* from 0; "eof" is the stream's end-of-file indicator (set by a read that *)
(* hits the end, cleared by a successful fseek).  A 32-bit "unsigned" that *)
(* holds bytes of the file is the tuple of its four bytes, most            *)
(* significant first, so that shifts and masks are exact at every value;   *)
(* its number is taken only where the source uses it as a count.  Of the     *)
(* text written to stderr only the progress of the metadata diagnostic     *)
(* past the end of the file is modelled.                                   *)
(***************************************************************************)
EXTENDS Integers, Sequences, FiniteSets, TLC

VARIABLES
    input,                   \* the bytes of the file to repair (never changes)
    seekable,                \* whether inputFID can seek: TRUE for a regular
                             \* file, FALSE for a pipe (never changes)
    pos,                     \* file position of inputFID
    eof,                     \* feof(inputFID)
    pc,                      \* where the run is
    status,                  \* exit status of the process: -1 while running
    repairType,              \* main: repairType
    first4Bytes,             \* main: first4Bytes (both scanning loops)
    next4Bytes,              \* main / doRepairType4 / doRepairType3or5Common
    numBytesToSkip,          \* main: numBytesToSkip
    repairType1FtypSize,     \* main: repairType1FtypSize
    repairType2Second4Bytes, \* main: repairType2Second4Bytes
    byte1,                   \* main: byte1 of the JPEG-preview skip
    outOpen,                 \* whether outputFID has been opened
    out,                     \* the bytes written to outputFID
    outFill,                 \* bytes 0xFF written after "out" from fgetc()==EOF
    formatCode,              \* the character typed at the format prompt
    nalSize,                 \* nalSize of the running repair loop
    metadataIsPrintable,     \* static int metadataIsPrintable
    printableMetadataCount,  \* static unsigned printableMetadataCount
    printedPastEnd,          \* characters the diagnostic loop has printed
                             \* after the end of the file, modulo 2
    maxRestore,              \* the longest way back, in bytes, that a
                             \* fseek(..., SEEK_SET) to a saved position
                             \* has moved the cursor so far
    entry                    \* ftell(inputFID) when main reaches the output
                             \* file and the dispatch (-1 before)

vars == <<input, seekable, pos, eof, pc, status, repairType, first4Bytes,
          next4Bytes,
          numBytesToSkip, repairType1FtypSize, repairType2Second4Bytes, byte1,
          outOpen, out, outFill, formatCode, nalSize, metadataIsPrintable,
          printableMetadataCount, printedPastEnd, maxRestore, entry>>

---------------------------------------------------------------------------
(* Bounds of the model.                                                    *)

\* Number of stream segments appended to a file head (see Inputs).
MaxSegs == 3

\* The same number for the runs checked for termination (see LiveInputs).
MaxSegsLive == 2
\* The largest NAL length in the windows given to the signature predicates.
MaxLead == 64

---------------------------------------------------------------------------
(* 32-bit unsigned words as four bytes, most significant first.            *)

Unset == -1         \* an automatic int/unsigned count not assigned yet
UnsetWord == <<>>   \* an automatic unsigned word not assigned yet

\* The word of the number n, 0 <= n < 2^31.
W(n) == <<(n \div 16777216) % 256, (n \div 65536) % 256, (n \div 256) % 256,
          n % 256>>

\* The number of the word w; it is used only for words below 2^31.
Num(w) == ((w[1] * 256 + w[2]) * 256 + w[3]) * 256 + w[4]

\* w < n and w > n for a number n < 2^31.
LT(w, n) == w[1] < 128 /\ Num(w) < n
GT(w, n) == IF w[1] >= 128 THEN TRUE ELSE Num(w) > n

\* Byte k (0 = most significant) of the word w: (w >> (24 - 8k)) & 0xFF.
ByteOf(w, k) == w[k + 1]

\* (w & 0xFFFF0000) >> 16 and (w & 0xFFFF)
Hi16(w) == w[1] * 256 + w[2]
Lo16(w) == w[3] * 256 + w[4]

BE16(c1, c2) == c1 * 256 + c2
BE32(c1, c2, c3, c4) == <<c1, c2, c3, c4>>

\* first4Bytes/next4Bytes after a one-byte shift of the 8-byte window.
ShiftLead(lead, trail) == <<lead[2], lead[3], lead[4], trail[1]>>
ShiftTrail(trail, c) == <<trail[2], trail[3], trail[4], c>>

fourcc_free == BE32(102, 114, 101, 101)
fourcc_ftyp == BE32(102, 116, 121, 112)
fourcc_isom == BE32(105, 115, 111, 109)
fourcc_mdat == BE32(109, 100, 97, 116)
fourcc_mijd == BE32(109, 105, 106, 100)
fourcc_moov == BE32(109, 111, 111, 118)
fourcc_wide == BE32(119, 105, 100, 101)
JFIF_header == BE32(255, 216, 255, 224)

---------------------------------------------------------------------------
(* The signature predicates.                                               *)

\* A faulty variant of checkFor0x00000002: the third byte of the second
\* word is not tested.
checkFor0x00000002AnyThird(lead, trail) ==
    /\ lead = W(2)
    /\ ByteOf(trail, 0) # 0
    /\ ByteOf(trail, 1) # 0

checkFor0x00000002(lead, trail) ==
    /\ lead = W(2)
    /\ ByteOf(trail, 0) # 0
    /\ ByteOf(trail, 1) # 0
    /\ ByteOf(trail, 2) = 0

\* A variant of checkForVideo that also takes a trail that begins with
\* 0x26 (what the function does not do).
checkForVideoWith26(lead, trail) ==
    IF <<lead[1], lead[2], lead[3]>> # <<0, 0, 0>> THEN FALSE
    ELSE \/ /\ lead = W(2)
            /\ ByteOf(trail, 0) # 0
            /\ ByteOf(trail, 1) # 0
            /\ ByteOf(trail, 2) = 0
         \/ (ByteOf(trail, 0) = 38 /\ GT(lead, 25) /\ LT(lead, 60))
         \/ (ByteOf(trail, 0) = 39 /\ GT(lead, 25) /\ LT(lead, 60))
         \/ (ByteOf(trail, 0) = 64 /\ GT(lead, 30) /\ LT(lead, 60))
         \/ (ByteOf(trail, 0) = 103 /\ GT(lead, 10) /\ LT(lead, 40))

checkForVideo(lead, trail) ==
    IF <<lead[1], lead[2], lead[3]>> # <<0, 0, 0>> THEN FALSE
    ELSE \/ /\ lead = W(2)
            /\ ByteOf(trail, 0) # 0
            /\ ByteOf(trail, 1) # 0
            /\ ByteOf(trail, 2) = 0
         \/ (ByteOf(trail, 0) = 39 /\ GT(lead, 25) /\ LT(lead, 60))
         \/ (ByteOf(trail, 0) = 64 /\ GT(lead, 30) /\ LT(lead, 60))
         \/ (ByteOf(trail, 0) = 103 /\ GT(lead, 10) /\ LT(lead, 40))

\* A variant of checkForVideoType4 that also takes the SPS header 27 01
\* (what the function does not do).
checkForVideoType4WithSps(lead, trail) ==
    IF lead = W(0) \/ GT(lead, 9437183) THEN FALSE
    ELSE LET nextByte == ByteOf(trail, 0)
             nextNextByte == ByteOf(trail, 1)
         IN CASE nextByte = 0 -> nextNextByte = 1
              [] nextByte = 1 -> nextNextByte = 253
              [] nextByte = 2 -> nextNextByte = 1
              [] nextByte = 38 -> nextNextByte = 1
              [] nextByte = 39 -> nextNextByte = 1
              [] nextByte = 40 -> nextNextByte = 1
              [] nextByte = 64 -> nextNextByte = 1
              [] nextByte = 65 -> (nextNextByte >= 224 /\ nextNextByte <= 252)
              [] nextByte = 66 -> nextNextByte = 1
              [] nextByte = 68 -> nextNextByte = 1
              [] nextByte = 101 -> nextNextByte = 184
              [] OTHER -> FALSE

checkForVideoType4(lead, trail) ==
    IF lead = W(0) \/ GT(lead, 9437183) THEN FALSE
    ELSE LET nextByte == ByteOf(trail, 0)
             nextNextByte == ByteOf(trail, 1)
         IN CASE nextByte = 0 -> nextNextByte = 1
              [] nextByte = 1 -> nextNextByte = 253
              [] nextByte = 2 -> nextNextByte = 1
              [] nextByte = 38 -> nextNextByte = 1
              [] nextByte = 40 -> nextNextByte = 1
              [] nextByte = 64 -> nextNextByte = 1
              [] nextByte = 65 -> (nextNextByte >= 224 /\ nextNextByte <= 252)
              [] nextByte = 66 -> nextNextByte = 1
              [] nextByte = 68 -> nextNextByte = 1
              [] nextByte = 101 -> nextNextByte = 184
              [] OTHER -> FALSE

\* A variant of the test below with a bound of 5 on the length (what the
\* search must not do: it would pass over a NAL unit of 5 bytes).
looksLikeType5Below5(lead, trail) == LT(lead, 5) /\ Hi16(trail) = 26040

\* main's test for 'type 5' video in the search for video data.
looksLikeType5(lead, trail) == LT(lead, 16777216) /\ Hi16(trail) = 26040

---------------------------------------------------------------------------
(* The byte cursor: get1Byte, get2Bytes, get4Bytes, fseek over "inp".      *)
(* A read returns a record: ok, the value, the position after the call.    *)
(* A read that fails has consumed the bytes that were left.                *)

EndAfter(inp, p) == IF p < Len(inp) THEN Len(inp) ELSE p

\* A faulty variant of get1Byte: the byte is returned but not consumed.
get1BytePeek(inp, p) ==
    IF p < Len(inp)
    THEN [ok |-> TRUE, val |-> inp[p + 1], pos |-> p]
    ELSE [ok |-> FALSE, val |-> 0, pos |-> p]

get1Byte(inp, p) ==
    IF p < Len(inp)
    THEN [ok |-> TRUE, val |-> inp[p + 1], pos |-> p + 1]
    ELSE [ok |-> FALSE, val |-> 0, pos |-> p]

get2Bytes(inp, p) ==
    IF p + 2 <= Len(inp)
    THEN [ok |-> TRUE, val |-> BE16(inp[p + 1], inp[p + 2]), pos |-> p + 2]
    ELSE [ok |-> FALSE, val |-> 0, pos |-> EndAfter(inp, p)]

get4Bytes(inp, p) ==
    IF p + 4 <= Len(inp)
    THEN [ok |-> TRUE,
          val |-> BE32(inp[p + 1], inp[p + 2], inp[p + 3], inp[p + 4]),
          pos |-> p + 4]
    ELSE [ok |-> FALSE, val |-> UnsetWord, pos |-> EndAfter(inp, p)]

\* fseek(fid, off, SEEK_CUR) and fseek(fid, target, SEEK_SET) on a regular
\* file fail exactly when the resulting position would be negative; a
\* position beyond the end of the file is accepted.  On a pipe every fseek
\* fails and the position is left as it was.
\* A faulty variant of restoredFrom: the last distance is recorded, also
\* when the seek went forward.
restoredFromLast(from, to) == from - to

\* The record of the longest way back after an absolute seek from "from"
\* to the saved position "to" (a seek forward, or a failed one, leaves it).
restoredFrom(from, to) ==
    IF seekable /\ from - to > maxRestore THEN from - to ELSE maxRestore

fseekOk(target) == seekable /\ target >= 0

\* fgetc() n times from position p: the bytes that exist.
ReadRun(inp, p, n) ==
    LET avail == IF p >= Len(inp) THEN 0
                 ELSE IF Len(inp) - p < n THEN Len(inp) - p ELSE n
    IN SubSeq(inp, p + 1, p + avail)

---------------------------------------------------------------------------
(* The Box Walker.                                                         *)

\* Faulty variants of ignoresAtomSize and is64BitAtomSize: the test is
\* never true.
ignoresAtomSizeNever(fourcc) == FALSE
is64BitAtomSizeNever(atomSize) == FALSE

\* "For 'mdat' atoms, ignore the size, because we don't use it".
ignoresAtomSize(fourcc) == fourcc = fourcc_mdat

\* The size that announces a 64-bit atom size, which is not supported.
is64BitAtomSize(atomSize) == atomSize = W(1)

\* checkAtom(fid, fourccToCheck, numRemainingBytesToSkip) called at position
\* p with end-of-file indicator e; "cur" is the value the caller's variable
\* holds, kept when the function does not assign it.  "exit" is the exit(1)
\* taken on a 64-bit atom size.
checkAtom(inp, p, e, fourccToCheck, cur) ==
    LET atomSize == get4Bytes(inp, p)
        fourcc == get4Bytes(inp, atomSize.pos)
        readAll == atomSize.ok /\ fourcc.ok
        tagOk == readAll /\ fourcc.val = fourccToCheck
        \* where the cursor is when the function gives up
        q == IF ~atomSize.ok THEN atomSize.pos
             ELSE IF ~fourcc.ok THEN fourcc.pos
             ELSE p + 8
        failed == IF fseekOk(q - 8)
                  THEN [ok |-> FALSE, exit |-> FALSE, skip |-> cur,
                        pos |-> q - 8, eof |-> FALSE]
                  ELSE [ok |-> FALSE, exit |-> FALSE, skip |-> cur,
                        pos |-> q, eof |-> (e \/ ~readAll)]
    IN IF ~tagOk THEN failed
       ELSE IF ignoresAtomSize(fourcc.val)
            THEN [ok |-> TRUE, exit |-> FALSE, skip |-> cur,
                  pos |-> p + 8, eof |-> e]
       ELSE IF is64BitAtomSize(atomSize.val)
            THEN [ok |-> FALSE, exit |-> TRUE, skip |-> cur,
                  pos |-> p + 8, eof |-> e]
       ELSE IF LT(atomSize.val, 8) THEN failed
       ELSE [ok |-> TRUE, exit |-> FALSE, skip |-> Num(atomSize.val) - 8,
             pos |-> p + 8, eof |-> e]

---------------------------------------------------------------------------
(* main: the file-start classifier.                                        *)

\* A faulty variant of Fail: the failure is reported as a success.
FailAsSuccess == pc' = "done" /\ status' = 0

\* "return 1" / exit(1): the run ends with failure status.
Fail == pc' = "done" /\ status' = 1

\* A faulty variant of badInitialAtomSize: sizes below 8 are let through.
badInitialAtomSizeNoFloor(size) == GT(size, 255)

\* A faulty variant of badInitialAtomSize: the ceiling 0xFF is forgotten.
badInitialAtomSizeNoCeiling(size) == LT(size, 8)

\* main's test that makes it ignore the size of the initial atom.
badInitialAtomSize(size) == LT(size, 8) \/ GT(size, 255)

\* Lines 279-282: the first 8 bytes of the file.
ReadStart ==
    /\ pc = "start"
    /\ LET a == get4Bytes(input, pos)
           b == get4Bytes(input, a.pos)
       IN IF a.ok /\ b.ok
          THEN /\ first4Bytes' = a.val
               /\ next4Bytes' = b.val
               /\ pos' = b.pos
               /\ pc' = "classify"
               /\ UNCHANGED <<eof, status>>
          ELSE /\ pos' = (IF a.ok THEN b.pos ELSE a.pos)
               /\ eof' = TRUE
               /\ Fail
               /\ UNCHANGED <<first4Bytes, next4Bytes>>
    /\ UNCHANGED <<input, seekable, maxRestore, entry, printedPastEnd,
                   repairType,
                   numBytesToSkip,
                   repairType1FtypSize, repairType2Second4Bytes, byte1,
                   outOpen, out, outFill, formatCode, nalSize,
                   metadataIsPrintable, printableMetadataCount>>

\* Lines 286-295: the window holds 'ftyp' or 'isom' (repair type 1).
ClassifyFtyp ==
    /\ pc = "classify"
    /\ next4Bytes = fourcc_ftyp \/ next4Bytes = fourcc_isom
    /\ IF badInitialAtomSize(first4Bytes)
       THEN pc' = "moov" /\ UNCHANGED <<pos, eof, status>>
       ELSE IF ~fseekOk(pos + (Num(first4Bytes) - 8))
       THEN Fail /\ UNCHANGED <<pos, eof>>
       ELSE /\ pos' = pos + (Num(first4Bytes) - 8)
            /\ eof' = FALSE
            /\ pc' = "moov"
            /\ UNCHANGED status
    /\ UNCHANGED <<input, seekable, maxRestore, entry, printedPastEnd,
                   repairType,
                   first4Bytes,
                   next4Bytes, numBytesToSkip, repairType1FtypSize,
                   repairType2Second4Bytes, byte1, outOpen, out, outFill,
                   formatCode, nalSize, metadataIsPrintable,
                   printableMetadataCount>>

\* Lines 296-300: the window holds the legacy signature (repair type 2).
ClassifySignature ==
    /\ pc = "classify"
    /\ ~(next4Bytes = fourcc_ftyp \/ next4Bytes = fourcc_isom)
    /\ checkFor0x00000002(first4Bytes, next4Bytes)
    /\ repairType' = 2
    /\ repairType2Second4Bytes' = next4Bytes
    /\ pc' = "open"
    /\ UNCHANGED <<input, seekable, maxRestore, entry, printedPastEnd, pos,
                   eof, status,
                   first4Bytes, next4Bytes, numBytesToSkip,
                   repairType1FtypSize, byte1, outOpen, out, outFill,
                   formatCode, nalSize, metadataIsPrintable,
                   printableMetadataCount>>

\* Lines 301-313: skip a 0x00000000 or 0xFFFFFFFF word.
ClassifySkipJunk ==
    /\ pc = "classify"
    /\ ~(next4Bytes = fourcc_ftyp \/ next4Bytes = fourcc_isom)
    /\ ~checkFor0x00000002(first4Bytes, next4Bytes)
    /\ first4Bytes = W(0) \/ first4Bytes = <<255, 255, 255, 255>>
    /\ LET r == get4Bytes(input, pos)
       IN /\ first4Bytes' = next4Bytes
          /\ pos' = r.pos
          /\ IF r.ok
             THEN next4Bytes' = r.val /\ UNCHANGED <<eof, pc, status>>
             ELSE eof' = TRUE /\ Fail /\ UNCHANGED next4Bytes
    /\ UNCHANGED <<input, seekable, maxRestore, entry, printedPastEnd,
                   repairType,
                   numBytesToSkip,
                   repairType1FtypSize, repairType2Second4Bytes, byte1,
                   outOpen, out, outFill, formatCode, nalSize,
                   metadataIsPrintable, printableMetadataCount>>

\* Lines 314-332: garbage; shift the window by one byte.
ClassifyShift ==
    /\ pc = "classify"
    /\ ~(next4Bytes = fourcc_ftyp \/ next4Bytes = fourcc_isom)
    /\ ~checkFor0x00000002(first4Bytes, next4Bytes)
    /\ ~(first4Bytes = W(0) \/ first4Bytes = <<255, 255, 255, 255>>)
    /\ LET c == get1Byte(input, pos)
       IN IF c.ok
          THEN /\ first4Bytes' = ShiftLead(first4Bytes, next4Bytes)
               /\ next4Bytes' = ShiftTrail(next4Bytes, c.val)
               /\ pos' = c.pos
               /\ UNCHANGED <<eof, pc, status>>
          ELSE /\ eof' = TRUE
               /\ Fail
               /\ UNCHANGED <<pos, first4Bytes, next4Bytes>>
    /\ UNCHANGED <<input, seekable, maxRestore, entry, printedPastEnd,
                   repairType,
                   numBytesToSkip,
                   repairType1FtypSize, repairType2Second4Bytes, byte1,
                   outOpen, out, outFill, formatCode, nalSize,
                   metadataIsPrintable, printableMetadataCount>>

---------------------------------------------------------------------------
(* main: the box walk of repair type 1.                                    *)

\* Lines 342-351: a 'moov' atom, skipped when present.
CheckMoov ==
    /\ pc = "moov"
    /\ LET a == checkAtom(input, pos, eof, fourcc_moov, numBytesToSkip)
       IN IF a.exit
          THEN Fail /\ pos' = a.pos /\ eof' = a.eof /\ UNCHANGED numBytesToSkip
          ELSE IF a.ok /\ ~fseekOk(a.pos + a.skip)
          THEN Fail /\ pos' = a.pos /\ eof' = a.eof
               /\ numBytesToSkip' = a.skip
          ELSE /\ numBytesToSkip' = a.skip
               /\ pc' = "free"
               /\ UNCHANGED status
               /\ IF a.ok
                  THEN pos' = a.pos + a.skip /\ eof' = FALSE
                  ELSE pos' = a.pos /\ eof' = a.eof
    /\ UNCHANGED <<input, seekable, maxRestore, entry, printedPastEnd,
                   repairType,
                   first4Bytes,
                   next4Bytes, repairType1FtypSize, repairType2Second4Bytes,
                   byte1, outOpen, out, outFill, formatCode, nalSize,
                   metadataIsPrintable, printableMetadataCount>>

\* Lines 354-369: a 'free' or a 'wide' atom, skipped when present.
CheckFreeWide ==
    /\ pc = "free"
    /\ LET f == checkAtom(input, pos, eof, fourcc_free, numBytesToSkip)
           w == checkAtom(input, f.pos, f.eof, fourcc_wide, numBytesToSkip)
       IN IF f.exit
          THEN Fail /\ pos' = f.pos /\ eof' = f.eof /\ UNCHANGED numBytesToSkip
          ELSE IF f.ok /\ ~fseekOk(f.pos + f.skip)
          THEN Fail /\ pos' = f.pos /\ eof' = f.eof
               /\ numBytesToSkip' = f.skip
          ELSE IF f.ok
          THEN /\ numBytesToSkip' = f.skip
               /\ pos' = f.pos + f.skip
               /\ eof' = FALSE
               /\ pc' = "mdat"
               /\ UNCHANGED status
          ELSE IF w.exit
          THEN Fail /\ pos' = w.pos /\ eof' = w.eof /\ UNCHANGED numBytesToSkip
          ELSE IF w.ok /\ w.skip > 0 /\ ~fseekOk(w.pos + w.skip)
          THEN Fail /\ pos' = w.pos /\ eof' = w.eof
               /\ numBytesToSkip' = w.skip
          ELSE /\ numBytesToSkip' = w.skip
               /\ pc' = "mdat"
               /\ UNCHANGED status
               /\ IF w.ok /\ w.skip > 0
                  THEN pos' = w.pos + w.skip /\ eof' = FALSE
                  ELSE pos' = w.pos /\ eof' = w.eof
    /\ UNCHANGED <<input, seekable, maxRestore, entry, printedPastEnd,
                   repairType,
                   first4Bytes,
                   next4Bytes, repairType1FtypSize, repairType2Second4Bytes,
                   byte1, outOpen, out, outFill, formatCode, nalSize,
                   metadataIsPrintable, printableMetadataCount>>

\* Lines 372-423: the 'mdat' atom and what its data begins with.
CheckMdat ==
    /\ pc = "mdat"
    /\ \E m \in {checkAtom(input, pos, eof, fourcc_mdat, Unset)} :
       \E f \in {checkAtom(input, m.pos, m.eof, fourcc_ftyp, numBytesToSkip)} :
       LET n == get4Bytes(input, f.pos)
       IN IF ~m.ok
          THEN \* no 'mdat': look for video in what follows
               /\ repairType' = 2
               /\ pos' = m.pos
               /\ eof' = m.eof
               /\ pc' = "video"
               /\ UNCHANGED <<status, numBytesToSkip, byte1>>
          ELSE IF f.exit
          THEN /\ Fail
               /\ pos' = f.pos
               /\ eof' = f.eof
               /\ UNCHANGED <<repairType, numBytesToSkip, byte1>>
          ELSE IF f.ok
          THEN \* 'mdat' data begins with 'ftyp': the nested walk follows
               /\ numBytesToSkip' = f.skip
               /\ pos' = f.pos
               /\ eof' = f.eof
               /\ pc' = "nested"
               /\ UNCHANGED <<status, repairType, byte1>>
          ELSE IF n.ok /\ (n.val = fourcc_mijd \/ n.val = JFIF_header)
          THEN /\ repairType' = 3
               /\ pos' = n.pos
               /\ eof' = f.eof
               /\ byte1' = 0
               /\ pc' = "jpeg"
               /\ UNCHANGED <<status, numBytesToSkip>>
          ELSE /\ repairType' = 2
               /\ IF n.ok
                  THEN IF fseekOk(n.pos - 4)
                       THEN pos' = n.pos - 4 /\ eof' = FALSE
                       ELSE pos' = n.pos /\ eof' = f.eof
                  ELSE pos' = n.pos /\ eof' = TRUE
               /\ pc' = "video"
               /\ UNCHANGED <<status, numBytesToSkip, byte1>>
    /\ UNCHANGED <<input, seekable, maxRestore, entry, printedPastEnd,
                   first4Bytes,
                   next4Bytes,
                   repairType1FtypSize, repairType2Second4Bytes, outOpen,
                   out, outFill, formatCode, nalSize, metadataIsPrintable,
                   printableMetadataCount>>

\* Lines 383-397: one iteration of the walk over repeated
\* 'ftyp','moov','mdat'('ftyp') prefixes; on its break, the old position is
\* restored and the size of the last 'ftyp' seen is kept for the repair.
NestedWalk ==
    /\ pc = "nested"
    /\ \E mv \in {checkAtom(input, pos + numBytesToSkip, FALSE, fourcc_moov,
                            Unset)} :
       \E md \in {checkAtom(input, mv.pos + mv.skip, FALSE, fourcc_mdat,
                            Unset)} :
       \E ft \in {checkAtom(input, md.pos, md.eof, fourcc_ftyp,
                            numBytesToSkip)} :
       LET curPos == pos
           p1 == pos + numBytesToSkip
           p2 == mv.pos + mv.skip
           seeksOk == fseekOk(p1) /\ (mv.ok => fseekOk(p2))
           \* where the cursor is when the loop is left by a break
           reached == IF ~fseekOk(p1) THEN curPos
                      ELSE IF ~mv.ok \/ ~fseekOk(p2) THEN mv.pos
                      ELSE IF ~md.ok THEN md.pos
                      ELSE ft.pos
       IN IF seeksOk /\ mv.exit
          THEN Fail /\ pos' = mv.pos /\ eof' = mv.eof
               /\ UNCHANGED <<numBytesToSkip, repairType1FtypSize,
                              maxRestore>>
          ELSE IF seeksOk /\ mv.ok /\ md.ok /\ ft.exit
          THEN Fail /\ pos' = ft.pos /\ eof' = ft.eof
               /\ UNCHANGED <<numBytesToSkip, repairType1FtypSize,
                              maxRestore>>
          ELSE IF seeksOk /\ mv.ok /\ md.ok /\ ft.ok
          THEN /\ numBytesToSkip' = ft.skip
               /\ pos' = ft.pos
               /\ eof' = ft.eof
               /\ UNCHANGED <<pc, status, repairType1FtypSize, maxRestore>>
          ELSE /\ pos' = curPos
               /\ eof' = (IF fseekOk(curPos) THEN FALSE ELSE eof)
               /\ maxRestore' = restoredFrom(reached, curPos)
               /\ repairType1FtypSize' = W(numBytesToSkip + 8)
               /\ pc' = "open"
               /\ UNCHANGED <<status, numBytesToSkip>>
    /\ UNCHANGED <<input, seekable, entry, printedPastEnd, repairType,
                   first4Bytes,
                   next4Bytes, repairType2Second4Bytes, byte1, outOpen, out,
                   outFill, formatCode, nalSize, metadataIsPrintable,
                   printableMetadataCount>>

---------------------------------------------------------------------------
(* main: the search for video data (repair types 2, 4, 5).                 *)

\* Lines 425-431: the first window of the search.
VideoStart ==
    /\ pc = "video"
    /\ LET a == get4Bytes(input, pos)
           b == get4Bytes(input, a.pos)
       IN IF a.ok /\ b.ok
          THEN /\ first4Bytes' = a.val
               /\ next4Bytes' = b.val
               /\ pos' = b.pos
               /\ pc' = "vscan"
               /\ UNCHANGED <<eof, status>>
          ELSE /\ pos' = (IF a.ok THEN b.pos ELSE a.pos)
               /\ eof' = TRUE
               /\ Fail
               /\ UNCHANGED <<first4Bytes, next4Bytes>>
    /\ UNCHANGED <<input, seekable, maxRestore, entry, printedPastEnd,
                   repairType,
                   numBytesToSkip,
                   repairType1FtypSize, repairType2Second4Bytes, byte1,
                   outOpen, out, outFill, formatCode, nalSize,
                   metadataIsPrintable, printableMetadataCount>>

\* Lines 433-443: the window holds a 2-byte NAL unit or an apparent SPS.
VideoMatch ==
    /\ pc = "vscan"
    /\ checkForVideo(first4Bytes, next4Bytes)
    /\ IF first4Bytes = W(2)
       THEN /\ repairType2Second4Bytes' = next4Bytes
            /\ UNCHANGED <<repairType, pos, eof>>
       ELSE /\ repairType' = 4
            /\ IF fseekOk(pos - 8)
               THEN pos' = pos - 8 /\ eof' = FALSE
               ELSE UNCHANGED <<pos, eof>>
            /\ UNCHANGED repairType2Second4Bytes
    /\ pc' = "open"
    /\ UNCHANGED <<input, seekable, maxRestore, entry, printedPastEnd, status,
                   first4Bytes,
                   next4Bytes, numBytesToSkip, repairType1FtypSize, byte1,
                   outOpen, out, outFill, formatCode, nalSize,
                   metadataIsPrintable, printableMetadataCount>>

\* Lines 444-451: the window looks like 'type 5' H.264 data.
VideoMatchType5 ==
    /\ pc = "vscan"
    /\ ~checkForVideo(first4Bytes, next4Bytes)
    /\ looksLikeType5(first4Bytes, next4Bytes)
    /\ repairType' = 5
    /\ IF fseekOk(pos - 8)
       THEN pos' = pos - 8 /\ eof' = FALSE
       ELSE UNCHANGED <<pos, eof>>
    /\ pc' = "open"
    /\ UNCHANGED <<input, seekable, maxRestore, entry, printedPastEnd, status,
                   first4Bytes,
                   next4Bytes, numBytesToSkip, repairType1FtypSize,
                   repairType2Second4Bytes, byte1, outOpen, out, outFill,
                   formatCode, nalSize, metadataIsPrintable,
                   printableMetadataCount>>

\* Lines 452-466: no match; shift the window by one byte, or give up.
VideoShift ==
    /\ pc = "vscan"
    /\ ~checkForVideo(first4Bytes, next4Bytes)
    /\ ~looksLikeType5(first4Bytes, next4Bytes)
    /\ LET c == get1Byte(input, pos)
       IN IF c.ok
          THEN /\ first4Bytes' = ShiftLead(first4Bytes, next4Bytes)
               /\ next4Bytes' = ShiftTrail(next4Bytes, c.val)
               /\ pos' = c.pos
               /\ UNCHANGED <<eof, pc, status>>
          ELSE /\ eof' = TRUE
               /\ Fail
               /\ UNCHANGED <<pos, first4Bytes, next4Bytes>>
    /\ UNCHANGED <<input, seekable, maxRestore, entry, printedPastEnd,
                   repairType,
                   numBytesToSkip,
                   repairType1FtypSize, repairType2Second4Bytes, byte1,
                   outOpen, out, outFill, formatCode, nalSize,
                   metadataIsPrintable, printableMetadataCount>>

---------------------------------------------------------------------------
(* main: the skip over the JPEG previews (repair type 3).                  *)

\* Lines 473-503: one iteration of the skip; at the end of the previews an
\* optional 'mdat' header is consumed.
JpegSkip ==
    /\ pc = "jpeg"
    /\ LET byte2 == get1Byte(input, pos)
           byte3 == get1Byte(input, byte2.pos)
           byte4 == get1Byte(input, byte3.pos)
           back == IF fseekOk(byte4.pos - 2) THEN byte4.pos - 2 ELSE byte4.pos
           m == checkAtom(input, back, FALSE, fourcc_mdat, Unset)
       IN IF ~byte2.ok
          THEN Fail /\ eof' = TRUE /\ UNCHANGED <<pos, byte1>>
          ELSE IF ~(byte1 = 255 /\ byte2.val = 217)
          THEN /\ byte1' = byte2.val
               /\ pos' = byte2.pos
               /\ UNCHANGED <<eof, pc, status>>
          ELSE IF ~(byte3.ok /\ byte4.ok)
          THEN /\ Fail
               /\ eof' = TRUE
               /\ pos' = (IF byte3.ok THEN byte4.pos ELSE byte3.pos)
               /\ UNCHANGED byte1
          ELSE IF byte3.val = 255 /\ byte4.val = 216
          THEN /\ byte1' = 0
               /\ pos' = byte4.pos
               /\ UNCHANGED <<eof, pc, status>>
          ELSE /\ pos' = m.pos
               /\ eof' = m.eof
               /\ pc' = "open"
               /\ UNCHANGED <<status, byte1>>
    /\ UNCHANGED <<input, seekable, maxRestore, entry, printedPastEnd,
                   repairType,
                   first4Bytes,
                   next4Bytes, numBytesToSkip, repairType1FtypSize,
                   repairType2Second4Bytes, outOpen, out, outFill,
                   formatCode, nalSize, metadataIsPrintable,
                   printableMetadataCount>>

---------------------------------------------------------------------------
(* main: the output file.                                                  *)

\* Lines 506-544: fopen(outputFileName, "wb"), which the system may refuse,
\* and the dispatch on the repair type.
OpenOutput ==
    /\ pc = "open"
    /\ \E opened \in BOOLEAN :
          IF opened
          THEN /\ outOpen' = TRUE
               /\ pc' = CASE repairType = 1 -> "r1"
                          [] repairType = 2 -> "r2"
                          [] repairType = 3 -> "r3"
                          [] repairType = 4 -> "r4"
                          [] repairType = 5 -> "r5"
               /\ UNCHANGED status
          ELSE Fail /\ UNCHANGED outOpen
    /\ entry' = pos
    /\ UNCHANGED <<input, seekable, maxRestore, printedPastEnd, pos, eof,
                   repairType,
                   first4Bytes,
                   next4Bytes, numBytesToSkip, repairType1FtypSize,
                   repairType2Second4Bytes, byte1, out, outFill, formatCode,
                   nalSize, metadataIsPrintable, printableMetadataCount>>

---------------------------------------------------------------------------
(* The Output Writer and the parameter-set catalog.                        *)

\* "return" from a repair procedure: main closes the output and returns 0.
Finish == pc' = "done" /\ status' = 0

\* The values an automatic variable read before any assignment may hold.
Indeterminate == {W(0), W(2), <<255, 255, 255, 255>>}
ValueOf(v) == IF v = UnsetWord THEN Indeterminate ELSE {v}

putStartCode == <<0, 0, 0, 1>>

\* while ((c = *blob++) != 0xfe) wr(c): the blob up to its 0xfe sentinel.
RECURSIVE upToSentinel(_)
upToSentinel(blob) ==
    IF blob = <<>> \/ Head(blob) = 254 THEN <<>>
    ELSE <<Head(blob)>> \o upToSentinel(Tail(blob))

SPS_1080p30_default ==
    <<103, 77, 0, 31, 147, 40, 8, 0, 147, 127, 224, 0, 32, 0, 40, 16, 0, 0, 3,
      0, 16, 0, 0, 3, 3, 200, 218, 8, 132, 101, 128, 254>>
PPS_For1080pNew == <<104, 238, 56, 128, 254>>
SPS_480p30 ==
    <<39, 77, 64, 30, 154, 102, 5, 1, 237, 128, 182, 64, 0, 0, 250, 64, 0, 58,
      152, 58, 16, 0, 94, 104, 0, 2, 243, 64, 187, 203, 141, 8, 0, 47, 52, 0,
      1, 121, 160, 93, 229, 195, 225, 16, 138, 60, 254>>
PPS_P2VP == <<40, 238, 60, 128, 254>>
type3_H264_SPS_480p30 ==
    <<103, 100, 0, 50, 172, 180, 5, 161, 237, 42, 64, 0, 0, 250, 0, 0, 58,
      152, 24, 16, 0, 30, 132, 128, 6, 221, 239, 123, 225, 120, 68, 35, 80,
      254>>
type3_H264_PPS_480p == <<104, 238, 60, 176, 254>>
type3_H265_SPS_2160x4096p30 ==
    <<64, 1, 12, 1, 255, 255, 33, 96, 0, 0, 3, 0, 0, 3, 0, 0, 3, 0, 0, 3, 0,
      150, 172, 9, 254>>
type3_H265_PPS_2160x4096p30 ==
    <<66, 1, 1, 33, 96, 0, 0, 3, 0, 0, 3, 0, 0, 3, 0, 0, 3, 0, 150, 160, 0,
      128, 8, 0, 135, 31, 229, 174, 237, 77, 221, 201, 117, 128, 181, 1, 1, 1,
      4, 0, 0, 15, 160, 0, 1, 134, 160, 174, 17, 8, 32, 254>>
type3_H265_VPS_2160x4096p30 ==
    <<68, 1, 193, 114, 176, 156, 10, 193, 94, 36, 254>>
type5_H264_SPS_1080p30_MavicAir ==
    <<103, 100, 0, 41, 172, 77, 0, 240, 4, 79, 202, 128, 254>>
type5_H264_PPS_MavicAir == <<104, 234, 143, 44, 254>>
type5_H264_SPS_720p24 ==
    <<103, 66, 128, 31, 218, 1, 64, 22, 233, 72, 40, 48, 48, 54, 133, 9, 168,
      254>>
type5_H264_PPS_720p24 == <<104, 206, 6, 242, 254>>

\* The format codes of the model: two of the codes each prompt accepts.
\* vps = <<>> stands for vps == NULL.
FormatCodes2 == {"G", "R"}
FormatCodes3 == {"6", "z"}
FormatCodes5 == {"4", "6"}

type2Format(code) ==
    IF code = "G"
    THEN [sps |-> SPS_1080p30_default, pps |-> PPS_For1080pNew, vps |-> <<>>]
    ELSE [sps |-> SPS_480p30, pps |-> PPS_P2VP, vps |-> <<>>]

type3Format(code) ==
    IF code = "6"
    THEN [sps |-> type3_H265_SPS_2160x4096p30,
          pps |-> type3_H265_PPS_2160x4096p30,
          vps |-> type3_H265_VPS_2160x4096p30]
    ELSE [sps |-> type3_H264_SPS_480p30, pps |-> type3_H264_PPS_480p,
          vps |-> <<>>]

type5Format(code) ==
    IF code = "4"
    THEN [sps |-> type5_H264_SPS_1080p30_MavicAir,
          pps |-> type5_H264_PPS_MavicAir, vps |-> <<>>]
    ELSE [sps |-> type5_H264_SPS_720p24, pps |-> type5_H264_PPS_720p24,
          vps |-> <<>>]

\* A faulty variant of writeParameterSets: the PPS is written before the SPS.
writeParameterSetsPpsFirst(f) ==
    putStartCode \o upToSentinel(f.pps) \o putStartCode \o upToSentinel(f.sps)
    \o (IF f.vps = <<>> THEN <<>> ELSE putStartCode \o upToSentinel(f.vps))

\* The SPS, PPS and (when there is one) VPS, each after a start code.
writeParameterSets(f) ==
    putStartCode \o upToSentinel(f.sps) \o putStartCode \o upToSentinel(f.pps)
    \o (IF f.vps = <<>> THEN <<>> ELSE putStartCode \o upToSentinel(f.vps))

\* A faulty variant of copyNal: the four bytes before the NAL unit (its
\* length field) are copied as well.
copyNalWithLength(inp, p, e, n) ==
    LET bytes == ReadRun(inp, p, n)
    IN [bytes |-> ReadRun(inp, p - 4, 4) \o bytes,
        fill |-> n - Len(bytes),
        pos |-> p + Len(bytes),
        eof |-> (e \/ Len(bytes) < n)]

\* while (nalSize-- > 0) wr(fgetc(inputFID)): the bytes copied, the number of
\* 0xFF bytes written for fgetc() == EOF, and the cursor afterwards.
copyNal(inp, p, e, n) ==
    LET bytes == ReadRun(inp, p, n)
    IN [bytes |-> bytes,
        fill |-> n - Len(bytes),
        pos |-> p + Len(bytes),
        eof |-> (e \/ Len(bytes) < n)]

\* A faulty variant of badNalSize35: a size of zero is let through.
badNalSize35NoZero(n) == GT(n, 16777215)

\* The NAL sizes each loop treats as anomalous.
badNalSize24(n) == n = W(0) \/ GT(n, 9437183)
badNalSize35(n) == n = W(0) \/ GT(n, 16777215)

---------------------------------------------------------------------------
(* doRepairType1.                                                          *)

\* A faulty variant of doRepairType1: the copy starts one byte too early.
doRepairType1FromHere(inp, p, ftypSize) ==
    ftypSize \o <<102, 116, 121, 112>> \o SubSeq(inp, p, Len(inp))

\* A faulty variant of doRepairType1: the first byte after the header is
\* not copied.
doRepairType1SkipByte(inp, p, ftypSize) ==
    ftypSize \o <<102, 116, 121, 112>> \o SubSeq(inp, p + 2, Len(inp))

\* What doRepairType1 writes with the cursor at p: the patched 'ftyp'
\* header, then every remaining byte of the input.
doRepairType1(inp, p, ftypSize) ==
    ftypSize \o <<102, 116, 121, 112>>
    \o SubSeq(inp, p + 1, Len(inp))

\* Lines 628-645.
RepairType1 ==
    /\ pc = "r1"
    /\ \E ftypSize \in ValueOf(repairType1FtypSize) :
          out' = out \o doRepairType1(input, pos, ftypSize)
    /\ pos' = EndAfter(input, pos)
    /\ eof' = TRUE
    /\ Finish
    /\ UNCHANGED <<input, seekable, maxRestore, entry, printedPastEnd,
                   repairType,
                   first4Bytes,
                   next4Bytes, numBytesToSkip, repairType1FtypSize,
                   repairType2Second4Bytes, byte1, outOpen, outFill,
                   formatCode, nalSize, metadataIsPrintable,
                   printableMetadataCount>>

---------------------------------------------------------------------------
(* doRepairType2.                                                          *)

\* Faulty variants of firstNalUnit and firstNalSize: the bytes are taken one
\* place further into the window.
firstNalUnitMid(second4Bytes) ==
    <<ByteOf(second4Bytes, 1), ByteOf(second4Bytes, 2)>>
firstNalSizeMid(second4Bytes, c1, c2) ==
    <<ByteOf(second4Bytes, 1), ByteOf(second4Bytes, 2), c1, c2>>

\* A faulty variant of resumeType2: only the last byte read is compared.
resumeType2LowByte(size) == ByteOf(size, 3) = 2

\* The first (2-byte) NAL unit, taken from the matched window.
firstNalUnit(second4Bytes) ==
    <<ByteOf(second4Bytes, 0), ByteOf(second4Bytes, 1)>>

\* The size of the NAL unit after it: the low half of the window, then the
\* next two bytes of the input.
firstNalSize(second4Bytes, c1, c2) ==
    <<ByteOf(second4Bytes, 2), ByteOf(second4Bytes, 3), c1, c2>>

\* The condition that ends the skip over anomalous bytes.
resumeType2(size) == size = W(2)

\* Lines 693-806: the parameter sets, the first NAL unit, the first size.
RepairType2Start ==
    /\ pc = "r2"
    /\ \E code \in FormatCodes2, second4Bytes \in ValueOf(repairType2Second4Bytes) :
          LET c1 == get1Byte(input, pos)
              c2 == get1Byte(input, c1.pos)
          IN /\ formatCode' = code
             /\ out' = out \o writeParameterSets(type2Format(code))
                           \o putStartCode \o firstNalUnit(second4Bytes)
             /\ IF c1.ok /\ c2.ok
                THEN /\ nalSize' = firstNalSize(second4Bytes, c1.val, c2.val)
                     /\ pos' = c2.pos
                     /\ pc' = "r2_loop"
                     /\ UNCHANGED <<eof, status>>
                ELSE /\ pos' = (IF c1.ok THEN c2.pos ELSE c1.pos)
                     /\ eof' = TRUE
                     /\ Finish
                     /\ UNCHANGED nalSize
    /\ UNCHANGED <<input, seekable, maxRestore, entry, printedPastEnd,
                   repairType,
                   first4Bytes,
                   next4Bytes, numBytesToSkip, repairType1FtypSize,
                   repairType2Second4Bytes, byte1, outOpen, outFill,
                   metadataIsPrintable, printableMetadataCount>>

\* Lines 808-815: one iteration of the loop: a start code, the NAL unit, the
\* next size.
RepairType2Loop ==
    /\ pc = "r2_loop"
    /\ IF eof
       THEN Finish /\ UNCHANGED <<pos, eof, out, outFill, nalSize>>
       ELSE LET c == copyNal(input, pos, eof, Num(nalSize))
                r == get4Bytes(input, c.pos)
            IN /\ out' = out \o putStartCode \o c.bytes
               /\ outFill' = outFill + c.fill
               /\ pos' = r.pos
               /\ IF ~r.ok
                  THEN eof' = TRUE /\ Finish /\ UNCHANGED nalSize
                  ELSE /\ nalSize' = r.val
                       /\ eof' = c.eof
                       /\ pc' = (IF badNalSize24(r.val) THEN "r2_recover"
                                 ELSE "r2_loop")
                       /\ UNCHANGED status
    /\ UNCHANGED <<input, seekable, maxRestore, entry, printedPastEnd,
                   repairType,
                   first4Bytes,
                   next4Bytes, numBytesToSkip, repairType1FtypSize,
                   repairType2Second4Bytes, byte1, outOpen, formatCode,
                   metadataIsPrintable, printableMetadataCount>>

\* Lines 825-828: one iteration of the skip over anomalous bytes.
RepairType2Recover ==
    /\ pc = "r2_recover"
    /\ LET c == get1Byte(input, pos)
       IN IF ~c.ok
          THEN eof' = TRUE /\ Finish /\ UNCHANGED <<pos, nalSize>>
          ELSE /\ nalSize' = ShiftTrail(nalSize, c.val)
               /\ pos' = c.pos
               /\ pc' = (IF resumeType2(nalSize') THEN "r2_loop"
                         ELSE "r2_recover")
               /\ UNCHANGED <<eof, status>>
    /\ UNCHANGED <<input, seekable, maxRestore, entry, printedPastEnd,
                   repairType,
                   first4Bytes,
                   next4Bytes, numBytesToSkip, repairType1FtypSize,
                   repairType2Second4Bytes, byte1, outOpen, out, outFill,
                   formatCode, metadataIsPrintable, printableMetadataCount>>

---------------------------------------------------------------------------
(* doRepairType4.                                                          *)

\* Lines 1044-1056 and 1078-1081: one iteration of the loop; an anomalous
\* size starts the search for a place to resume.
RepairType4Loop ==
    /\ pc = "r4"
    /\ LET r == get4Bytes(input, pos)
           n == get4Bytes(input, r.pos)
           c == copyNal(input, r.pos, eof, Num(r.val))
       IN IF eof
          THEN Finish /\ UNCHANGED <<pos, eof, out, outFill, nalSize,
                                     next4Bytes>>
          ELSE IF ~r.ok
          THEN /\ Finish
               /\ pos' = r.pos
               /\ eof' = TRUE
               /\ UNCHANGED <<out, outFill, nalSize, next4Bytes>>
          ELSE IF badNalSize24(r.val)
          THEN /\ nalSize' = r.val
               /\ pos' = n.pos
               /\ IF n.ok
                  THEN /\ next4Bytes' = n.val
                       /\ pc' = "r4_recover"
                       /\ UNCHANGED <<eof, status>>
                  ELSE eof' = TRUE /\ Finish /\ UNCHANGED next4Bytes
               /\ UNCHANGED <<out, outFill>>
          ELSE /\ nalSize' = r.val
               /\ out' = out \o putStartCode \o c.bytes
               /\ outFill' = outFill + c.fill
               /\ pos' = c.pos
               /\ eof' = c.eof
               /\ UNCHANGED <<pc, status, next4Bytes>>
    /\ UNCHANGED <<input, seekable, maxRestore, entry, printedPastEnd,
                   repairType,
                   first4Bytes,
                   numBytesToSkip, repairType1FtypSize,
                   repairType2Second4Bytes, byte1, outOpen, formatCode,
                   metadataIsPrintable, printableMetadataCount>>

\* A faulty variant of resumeType4: the cursor is put back to the start of
\* the matched length field.
resumeType4AtLead(p) == p - 8

\* Line 1064: where doRepairType4 resumes from a match found with the
\* cursor at p, just after the window: fseek(inputFID, -4, SEEK_CUR).
resumeType4(p) == p - 4

\* Lines 1057-1066 and 1078-1081: one iteration of the search; at a match the
\* cursor is put back to the start of the trail and the NAL unit is copied.
RepairType4Recover ==
    /\ pc = "r4_recover"
    /\ LET b == get1Byte(input, pos)
           back == IF fseekOk(resumeType4(pos)) THEN resumeType4(pos)
                   ELSE pos
           c == copyNal(input, back, FALSE, Num(nalSize))
       IN IF checkForVideoType4(nalSize, next4Bytes)
          THEN /\ out' = out \o putStartCode \o c.bytes
               /\ outFill' = outFill + c.fill
               /\ pos' = c.pos
               /\ eof' = c.eof
               /\ pc' = "r4"
               /\ UNCHANGED <<status, nalSize, next4Bytes>>
          ELSE IF ~b.ok
          THEN /\ eof' = TRUE
               /\ Finish
               /\ UNCHANGED <<pos, out, outFill, nalSize, next4Bytes>>
          ELSE /\ nalSize' = ShiftLead(nalSize, next4Bytes)
               /\ next4Bytes' = ShiftTrail(next4Bytes, b.val)
               /\ pos' = b.pos
               /\ UNCHANGED <<eof, pc, status, out, outFill>>
    /\ UNCHANGED <<input, seekable, maxRestore, entry, printedPastEnd,
                   repairType,
                   first4Bytes,
                   numBytesToSkip, repairType1FtypSize,
                   repairType2Second4Bytes, byte1, outOpen, formatCode,
                   metadataIsPrintable, printableMetadataCount>>

---------------------------------------------------------------------------
(* doRepairType3, doRepairType5 and doRepairType3or5Common.                *)

\* Lines 905-1031: the parameter sets of a 'type 3' repair.
RepairType3Start ==
    /\ pc = "r3"
    /\ \E code \in FormatCodes3 :
          /\ formatCode' = code
          /\ out' = out \o writeParameterSets(type3Format(code))
    /\ pc' = "r35"
    /\ UNCHANGED <<input, seekable, maxRestore, entry, printedPastEnd, pos,
                   eof, status,
                   repairType, first4Bytes, next4Bytes, numBytesToSkip,
                   repairType1FtypSize, repairType2Second4Bytes, byte1,
                   outOpen, outFill, nalSize, metadataIsPrintable,
                   printableMetadataCount>>

\* Lines 1097-1161: the parameter sets of a 'type 5' repair.
RepairType5Start ==
    /\ pc = "r5"
    /\ \E code \in FormatCodes5 :
          /\ formatCode' = code
          /\ out' = out \o writeParameterSets(type5Format(code))
    /\ pc' = "r35"
    /\ UNCHANGED <<input, seekable, maxRestore, entry, printedPastEnd, pos,
                   eof, status,
                   repairType, first4Bytes, next4Bytes, numBytesToSkip,
                   repairType1FtypSize, repairType2Second4Bytes, byte1,
                   outOpen, outFill, nalSize, metadataIsPrintable,
                   printableMetadataCount>>

\* The tests of the loop on the size it has read, in the order of the source.
isTrack2Block(size) == Hi16(size) = 510
isTrack2ShortBlock(size) ==
    Hi16(size) \in {8476, 8492, 8526, 8572, 11983, 14353, 23964, 23995, 32801}
isMetadataBlock(size, peek) ==
    size = <<5, 198, 78, 111>> \/ (Hi16(size) = 248 /\ peek = <<32, 48, 48,
             32>>)
isMetadata100Block(size) == size = <<0, 254, 70, 47>>

isPrintable(b) == b >= 32 /\ b <= 126
allPrintable(w) ==
    /\ isPrintable(ByteOf(w, 0))
    /\ isPrintable(ByteOf(w, 1))
    /\ isPrintable(ByteOf(w, 2))
    /\ isPrintable(ByteOf(w, 3))

\* do { c = fgetc(fid); ... } while (c is none of stops): whether the loop
\* started at p ends, that is, whether a stop byte lies at or after p.  At the
\* end of the file fgetc() returns EOF, c becomes 0xFF and the loop goes on.
printEnds(inp, p, stops) == \E i \in (p + 1)..Len(inp) : inp[i] \in stops

\* The cursor after such a loop that ends: just after the first stop byte.
printStop(inp, p, stops) ==
    CHOOSE i \in (p + 1)..Len(inp) :
        inp[i] \in stops /\ \A j \in (p + 1)..(i - 1) : inp[j] \notin stops

\* Lines 1174-1177: the size and a look at the four bytes after it.
RepairType35Read ==
    /\ pc = "r35"
    /\ LET a == get4Bytes(input, pos)
           b == get4Bytes(input, a.pos)
       IN IF eof
          THEN Finish /\ UNCHANGED <<pos, eof, nalSize, next4Bytes>>
          ELSE IF ~(a.ok /\ b.ok)
          THEN /\ Finish
               /\ pos' = (IF a.ok THEN b.pos ELSE a.pos)
               /\ eof' = TRUE
               /\ UNCHANGED <<nalSize, next4Bytes>>
          ELSE /\ nalSize' = a.val
               /\ next4Bytes' = b.val
               /\ pos' = (IF fseekOk(b.pos - 4) THEN b.pos - 4 ELSE b.pos)
               /\ eof' = FALSE
               /\ pc' = "r35_body"
               /\ UNCHANGED status
    /\ UNCHANGED <<input, seekable, maxRestore, entry, printedPastEnd,
                   repairType,
                   first4Bytes,
                   numBytesToSkip, repairType1FtypSize,
                   repairType2Second4Bytes, byte1, outOpen, out, outFill,
                   formatCode, metadataIsPrintable, printableMetadataCount>>

\* Lines 1179-1184: a 0x200-byte block of 'track 2' data.
RepairType35Track2 ==
    /\ pc = "r35_body"
    /\ isTrack2Block(nalSize)
    /\ IF fseekOk(pos + (512 - 4))
       THEN /\ pos' = pos + (512 - 4)
            /\ eof' = FALSE
            /\ pc' = "r35"
            /\ UNCHANGED status
       ELSE Finish /\ UNCHANGED <<pos, eof>>
    /\ UNCHANGED <<input, seekable, maxRestore, entry, printedPastEnd,
                   repairType,
                   first4Bytes, next4Bytes, numBytesToSkip,
                   repairType1FtypSize, repairType2Second4Bytes, byte1,
                   outOpen, out, outFill, formatCode, nalSize,
                   metadataIsPrintable, printableMetadataCount>>

\* Lines 1185-1198: a 0x1F9-byte block of 'track 2' data.
RepairType35Track2Short ==
    /\ pc = "r35_body"
    /\ ~isTrack2Block(nalSize)
    /\ isTrack2ShortBlock(nalSize)
    /\ IF fseekOk(pos + (505 - 4))
       THEN /\ pos' = pos + (505 - 4)
            /\ eof' = FALSE
            /\ pc' = "r35"
            /\ UNCHANGED status
       ELSE Finish /\ UNCHANGED <<pos, eof>>
    /\ UNCHANGED <<input, seekable, maxRestore, entry, printedPastEnd,
                   repairType,
                   first4Bytes, next4Bytes, numBytesToSkip,
                   repairType1FtypSize, repairType2Second4Bytes, byte1,
                   outOpen, out, outFill, formatCode, nalSize,
                   metadataIsPrintable, printableMetadataCount>>

\* Lines 1199-1253: a block of the 'metadata' track of variable size.
RepairType35Metadata ==
    /\ pc = "r35_body"
    /\ ~isTrack2Block(nalSize)
    /\ ~isTrack2ShortBlock(nalSize)
    /\ isMetadataBlock(nalSize, next4Bytes)
    /\ LET noBinary == nalSize = <<5, 198, 78, 111>>
           count == get2Bytes(input, pos + 246)
           \* the cursor at the (assumed) printable metadata
           p1 == IF noBinary THEN pos - 2 ELSE count.pos
           declared == IF noBinary THEN 1478 ELSE count.val
           check == declared >= 4 /\ metadataIsPrintable = 1
           peek == get4Bytes(input, p1)
           remainingMetadataSize ==
               IF check /\ peek.ok /\ allPrintable(peek.val) THEN declared
               ELSE 0
       IN IF ~fseekOk(IF noBinary THEN pos - 2 ELSE pos + 246)
          THEN /\ Finish
               /\ UNCHANGED <<pos, eof, metadataIsPrintable,
                              printableMetadataCount, maxRestore>>
          ELSE IF ~noBinary /\ ~count.ok
          THEN /\ Finish
               /\ pos' = count.pos
               /\ eof' = TRUE
               /\ UNCHANGED <<metadataIsPrintable, printableMetadataCount,
                              maxRestore>>
          ELSE IF check /\ ~peek.ok
          THEN /\ Finish
               /\ pos' = peek.pos
               /\ eof' = TRUE
               /\ UNCHANGED <<metadataIsPrintable, printableMetadataCount,
                              maxRestore>>
          ELSE IF remainingMetadataSize > 0
          THEN /\ printableMetadataCount' = printableMetadataCount + 1
               /\ UNCHANGED <<metadataIsPrintable, status>>
               /\ IF printableMetadataCount' = 1
                     /\ ~printEnds(input, p1, {10, 0})
                  THEN pos' = EndAfter(input, p1) /\ eof' = TRUE
                       /\ pc' = "print"
                       /\ UNCHANGED maxRestore
                  ELSE pos' = p1 + remainingMetadataSize /\ eof' = FALSE
                       /\ pc' = "r35"
                       /\ maxRestore' =
                              IF printableMetadataCount' = 1
                              THEN restoredFrom(
                                       printStop(input, p1, {10, 0}), p1)
                              ELSE maxRestore
          ELSE /\ pos' = p1 - 2
               /\ eof' = FALSE
               /\ metadataIsPrintable' = 0
               /\ pc' = "r35"
               /\ UNCHANGED <<status, printableMetadataCount, maxRestore>>
    /\ UNCHANGED <<input, seekable, entry, printedPastEnd, repairType,
                   first4Bytes,
                   next4Bytes, numBytesToSkip, repairType1FtypSize,
                   repairType2Second4Bytes, byte1, outOpen, out, outFill,
                   formatCode, nalSize>>

\* Lines 1254-1272: a 0x100-byte block of the 'metadata' track.
RepairType35Metadata100 ==
    /\ pc = "r35_body"
    /\ ~isTrack2Block(nalSize)
    /\ ~isTrack2ShortBlock(nalSize)
    /\ ~isMetadataBlock(nalSize, next4Bytes)
    /\ isMetadata100Block(nalSize)
    /\ printableMetadataCount' = printableMetadataCount + 1
    /\ IF printableMetadataCount' = 1 /\ ~printEnds(input, pos, {10})
       THEN /\ pos' = EndAfter(input, pos)
            /\ eof' = TRUE
            /\ pc' = "print"
            /\ UNCHANGED <<status, maxRestore>>
       ELSE IF fseekOk(pos + (256 - 4))
       THEN /\ pos' = pos + (256 - 4)
            /\ eof' = FALSE
            /\ pc' = "r35"
            /\ maxRestore' = IF printableMetadataCount' = 1
                             THEN restoredFrom(printStop(input, pos, {10}),
                                               pos)
                             ELSE maxRestore
            /\ UNCHANGED status
       ELSE \* neither the restoring fseek nor the skip moves the cursor
            /\ pos' = (IF printableMetadataCount' = 1
                       THEN printStop(input, pos, {10}) ELSE pos)
            /\ UNCHANGED <<eof, maxRestore>>
            /\ Finish
    /\ UNCHANGED <<input, seekable, entry, printedPastEnd, repairType,
                   first4Bytes, next4Bytes, numBytesToSkip,
                   repairType1FtypSize, repairType2Second4Bytes, byte1,
                   outOpen, out, outFill, formatCode, nalSize,
                   metadataIsPrintable>>

\* Lines 1241-1244 and 1265-1268 with the cursor at the end of the file:
\* fgetc() returns EOF, no stop byte is seen, and the loop goes round again.
PrintPastEnd ==
    /\ pc = "print"
    /\ printedPastEnd' = 1 - printedPastEnd
    /\ UNCHANGED <<input, seekable, maxRestore, entry, pos, eof, pc, status,
                   repairType,
                   first4Bytes, next4Bytes, numBytesToSkip,
                   repairType1FtypSize, repairType2Second4Bytes, byte1,
                   outOpen, out, outFill, formatCode, nalSize,
                   metadataIsPrintable, printableMetadataCount>>

\* Lines 1273-1280: an anomalous size ends the repair.
RepairType35Anomalous ==
    /\ pc = "r35_body"
    /\ ~isTrack2Block(nalSize)
    /\ ~isTrack2ShortBlock(nalSize)
    /\ ~isMetadataBlock(nalSize, next4Bytes)
    /\ ~isMetadata100Block(nalSize)
    /\ badNalSize35(nalSize)
    /\ Finish
    /\ UNCHANGED <<input, seekable, maxRestore, entry, printedPastEnd, pos,
                   eof, repairType,
                   first4Bytes, next4Bytes, numBytesToSkip,
                   repairType1FtypSize, repairType2Second4Bytes, byte1,
                   outOpen, out, outFill, formatCode, nalSize,
                   metadataIsPrintable, printableMetadataCount>>

\* Lines 1282-1285: a start code, then the NAL unit.
RepairType35Copy ==
    /\ pc = "r35_body"
    /\ ~isTrack2Block(nalSize)
    /\ ~isTrack2ShortBlock(nalSize)
    /\ ~isMetadataBlock(nalSize, next4Bytes)
    /\ ~isMetadata100Block(nalSize)
    /\ ~badNalSize35(nalSize)
    /\ LET c == copyNal(input, pos, eof, Num(nalSize))
       IN /\ out' = out \o putStartCode \o c.bytes
          /\ outFill' = outFill + c.fill
          /\ pos' = c.pos
          /\ eof' = c.eof
    /\ pc' = "r35"
    /\ UNCHANGED <<input, seekable, maxRestore, entry, printedPastEnd, status,
                   repairType,
                   first4Bytes, next4Bytes, numBytesToSkip,
                   repairType1FtypSize, repairType2Second4Bytes, byte1,
                   outOpen, formatCode, nalSize, metadataIsPrintable,
                   printableMetadataCount>>

---------------------------------------------------------------------------
(* The input files of the model: a head that decides the path through the  *)
(* classifier, then up to MaxSegs segments of stream data.                 *)

RECURSIVE Cat(_)
Cat(ss) == IF ss = <<>> THEN <<>> ELSE Head(ss) \o Cat(Tail(ss))

Repeat(b, n) == [i \in 1..n |-> b]

\* An atom header: size, then tag.
Atom(size, tag) == W(size) \o tag

NAL5 == <<0, 0, 0, 5, 101, 184, 1, 2, 3>>    \* a NAL unit of 5 bytes, 65 B8 ..
NAL2 == <<0, 0, 0, 2, 39, 100>>            \* the 2-byte NAL unit 27 64
NAL2Z == <<0, 0, 0, 2, 0, 7>>              \* a size of 2 before a zero byte
ZERO == <<0, 0, 0, 0>>
ONES == <<255, 255, 255, 255>>
GARB == <<65, 66>>
SPSREC == <<0, 0, 0, 11, 103, 1, 2, 3, 4, 5, 6, 7, 8, 9, 10>>
TRK == <<1, 254, 0, 0>> \o Repeat(170, 508)  \* a 0x200-byte 'track 2' block
TRK_CUT == <<1, 254, 0, 0, 170, 170>>        \* the start of such a block
TRKS == <<33, 28, 0, 0>> \o Repeat(170, 501) \* a 0x1F9-byte 'track 2' block
META_NO == <<5, 198, 78, 111, 0, 0, 0, 1>>   \* 0x05c64e6f, then not printable
\* 0x05c64e6f, then printable text: 0x5c6 bytes from the 'N' of the size.
META_PR == <<5, 198, 78, 111>> \o Repeat(65, 1476)
\* 0x00f8...., " 00 ", binary data, a count of 6, six printable bytes.
META_F8 ==
    <<0, 248, 0, 0, 32, 48, 48, 32>> \o Repeat(0, 242) \o <<0, 6>>
    \o <<65, 66, 67, 68, 10, 32>>
\* The same start, but the next size where the count would be.
META_F8N == <<0, 248, 0, 0, 32, 48, 48, 32>> \o Repeat(0, 242)
\* 0x00fe462f: a 0x100-byte block of text that has a newline.
META100 == <<0, 254, 70, 47, 65, 10>> \o Repeat(32, 250)

Segs24 == {NAL5, NAL2, NAL2Z, ZERO, ONES, GARB, SPSREC}
Segs35 ==
    {NAL5, NAL2, ZERO, ONES, TRK, TRK_CUT, TRKS, META_NO, META_PR, META_F8,
     META_F8N, META100}
Segs1 == {NAL5, ZERO, GARB}

\* Heads that lead to a 'type 3' or a 'type 5' repair.
Heads35 ==
    { Atom(8, fourcc_ftyp) \o Atom(0, fourcc_mdat) \o NAL5,
      Atom(8, fourcc_ftyp) \o Atom(0, fourcc_mdat) \o fourcc_mijd
          \o <<1, 255, 217>>,
      Atom(8, fourcc_isom) \o Atom(8, fourcc_moov) \o Atom(16, fourcc_mdat)
          \o JFIF_header \o <<7, 255, 217, 255, 216, 7, 255, 217>>
          \o Atom(0, fourcc_mdat) }

\* Heads of the box walk: nested 'ftyp' atoms (repair type 1), the optional
\* atoms, sizes that are ignored or rejected.
Heads1 ==
    { Atom(8, fourcc_ftyp) \o Atom(8, fourcc_moov) \o Atom(8, fourcc_mdat)
          \o Atom(8, fourcc_ftyp),
      Atom(12, fourcc_ftyp) \o <<1, 2, 3, 4>> \o Atom(8, fourcc_moov)
          \o Atom(8, fourcc_free) \o Atom(1, fourcc_mdat)
          \o Atom(12, fourcc_ftyp) \o <<5, 6, 7, 8>> \o Atom(10, fourcc_moov)
          \o <<9, 9>> \o Atom(0, fourcc_mdat) \o Atom(9, fourcc_ftyp),
      Atom(256, fourcc_ftyp) \o Atom(12, fourcc_wide) \o <<1, 2, 3, 4>>
          \o Atom(8, fourcc_mdat) \o Atom(24, fourcc_ftyp),
      Atom(4, fourcc_ftyp) \o Atom(8, fourcc_wide) \o Atom(8, fourcc_mdat)
          \o Atom(4, fourcc_ftyp),
      Atom(8, fourcc_ftyp) \o Atom(1, fourcc_moov),
      Atom(255, fourcc_ftyp),
      Atom(8, fourcc_ftyp),
      Atom(8, fourcc_ftyp) \o Atom(1, fourcc_free),
      Atom(8, fourcc_ftyp) \o Atom(1, fourcc_wide),
      Atom(8, fourcc_ftyp) \o Atom(5, fourcc_mdat) \o Atom(1, fourcc_ftyp),
      Atom(8, fourcc_ftyp) \o Atom(8, fourcc_mdat) \o Atom(8, fourcc_ftyp)
          \o Atom(1, fourcc_moov),
      Atom(8, fourcc_ftyp) \o Atom(8, fourcc_mdat) \o Atom(8, fourcc_ftyp)
          \o Atom(8, fourcc_moov) \o Atom(7, fourcc_mdat)
          \o Atom(1, fourcc_ftyp),
      Atom(8, fourcc_ftyp) \o Atom(0, fourcc_mdat) \o Atom(12, fourcc_ftyp)
          \o <<1, 2, 3, 4>> \o Atom(10, fourcc_moov) \o <<9, 9>> }

\* The scenario of the specification's section 8: two junk words, the window
\* 00 00 00 02 27 64 00 2A, a size of 5 and five bytes.
Scenario8 ==
    ONES \o ONES \o <<0, 0, 0, 2, 39, 100, 0, 42>> \o <<0, 0, 0, 5>>
    \o <<17, 18, 19, 20, 21>>

\* The same with a window that ends where the size 00 00 00 05 begins: two
\* junk words, 00 00 00 02 27 64, the size 5 and five bytes.
Scenario8Amended == ONES \o ONES \o NAL2 \o NAL5

\* Heads that lead to the scan for a signature or for video.
Heads24 ==
    { <<>>,
      ONES \o ONES,
      Scenario8Amended,
      Atom(8, fourcc_ftyp) \o Atom(0, fourcc_mdat) }

\* A file whose video data has, after two junk bytes, a window that matches
\* both checkForVideo (a size of 2) and the 'type 5' pattern (65 B8).
SearchBoth ==
    Atom(8, fourcc_ftyp) \o Atom(0, fourcc_mdat) \o GARB
    \o <<0, 0, 0, 2, 101, 184, 0, 7>> \o NAL5

\* A file that ends inside a NAL unit: a length of 5, then four bytes.
CutNal ==
    Atom(8, fourcc_ftyp) \o Atom(0, fourcc_mdat)
    \o <<0, 0, 0, 5, 101, 184, 1, 2>>

\* A file with the legacy signature one byte into a zero word: a zero
\* byte, 00 00 00 02 27 64, then a NAL unit of 5 bytes.
JunkThenSignature == <<0>> \o NAL2 \o NAL5

\* Files whose JPEG previews end at, or a byte or two before, the end of
\* the file: the data is 'mijd', two bytes, FF D9 and what is left.
PreviewEnds ==
    {Atom(8, fourcc_ftyp) \o Atom(0, fourcc_mdat) \o fourcc_mijd
         \o <<1, 2, 255, 217>> \o rest :
        rest \in {<<>>, <<7>>, <<255>>, <<7, 7>>, <<255, 216>>}}

\* 'Type 5' files that end in a block of a side track: a 0x1F9-byte block
\* cut after one byte, one with a NAL unit after it, and 0x100-byte blocks
\* of metadata cut after one byte or without a newline in their text.
SideTrackEnds ==
    {Atom(8, fourcc_ftyp) \o Atom(0, fourcc_mdat) \o NAL5 \o rest :
        rest \in {<<33, 28, 0, 0, 170>>,
                  <<128, 33, 0, 0>> \o Repeat(170, 501) \o NAL5,
                  <<0, 254, 70, 47, 65>>,
                  <<0, 254, 70, 47>> \o Repeat(65, 252) \o NAL5}}

\* Files in which the first atom header the classifier sees, at the start
\* of the file or one byte into it, is 'ftyp' or 'isom' with a size that is
\* not in 8..0xFF; 'mdat' with a nested 'ftyp' follows.
IgnoredSizes ==
    {pre \o size \o tag \o Atom(8, fourcc_mdat) \o Atom(8, fourcc_ftyp)
         \o NAL5 :
        pre \in {<<>>, <<7>>},
        size \in {W(0), W(1), W(7), <<0, 0, 1, 0>>, <<1, 0, 0, 8>>, ONES},
        tag \in {fourcc_ftyp, fourcc_isom}}

BodiesUpTo(segs, n) ==
    UNION { {Cat(b) : b \in [1..k -> segs]} : k \in 0..n }

Bodies(segs) == BodiesUpTo(segs, MaxSegs)

Inputs ==
    {h \o b : h \in Heads24, b \in Bodies(Segs24)}
    \cup {h \o b : h \in Heads35, b \in Bodies(Segs35)}
    \cup {h \o b : h \in Heads1, b \in Bodies(Segs1)}
    \cup {Scenario8, SearchBoth, CutNal, JunkThenSignature}
    \cup PreviewEnds \cup SideTrackEnds \cup IgnoredSizes

\* A head that leads to a 'type 4' repair: the data begins with an SPS.
Head4 == Atom(8, fourcc_ftyp) \o Atom(0, fourcc_mdat) \o SPSREC

\* The input files of the runs checked for termination.
LiveInputs ==
    {h \o b : h \in Heads24 \cup {Head4},
              b \in BodiesUpTo(Segs24, MaxSegsLive)}
    \cup {h \o b : h \in Heads35, b \in BodiesUpTo(Segs35, MaxSegsLive)}
    \cup {h \o b : h \in Heads1, b \in BodiesUpTo(Segs1, MaxSegsLive)}
    \cup {Scenario8}

\* The windows (lead, trail) given to the signature predicates: every
\* length up to MaxLead, leads with a high byte set (0x00fe462f is also the
\* mark of a metadata block), and trails made of the NAL header bytes the
\* predicates know and of some they do not.
WindowLeads ==
    {W(n) : n \in 0..MaxLead}
    \cup {<<0, 0, 1, 30>>, <<0, 1, 0, 2>>, <<1, 0, 0, 30>>, <<0, 144, 0, 0>>,
          <<0, 254, 70, 47>>}
WindowTrails ==
    {<<b, c, d, 7>> : b \in {0, 1, 38, 39, 64, 65, 101, 103},
                      c \in {0, 1, 184, 224}, d \in {0, 1}}

\* Files in which the search for video data starts on such a window.
VideoWindows ==
    {Atom(8, fourcc_ftyp) \o Atom(0, fourcc_mdat) \o lead \o trail :
        lead \in WindowLeads, trail \in WindowTrails}

\* 'Type 4' files in which such a window follows an anomalous length.
ResumeWindows ==
    {Head4 \o ONES \o lead \o trail \o <<1, 2, 3>> :
        lead \in WindowLeads, trail \in WindowTrails}

---------------------------------------------------------------------------
(* The specification.                                                      *)

\* The state of the program when main is entered.
Start ==
    /\ pos = 0
    /\ eof = FALSE
    /\ pc = "start"
    /\ status = -1
    /\ repairType = 1
    /\ first4Bytes = UnsetWord
    /\ next4Bytes = UnsetWord
    /\ numBytesToSkip = Unset
    /\ repairType1FtypSize = UnsetWord
    /\ repairType2Second4Bytes = UnsetWord
    /\ byte1 = Unset
    /\ outOpen = FALSE
    /\ out = <<>>
    /\ outFill = 0
    /\ formatCode = ""
    /\ nalSize = UnsetWord
    /\ metadataIsPrintable = 1
    /\ printableMetadataCount = 0
    /\ printedPastEnd = 0
    /\ maxRestore = 0
    /\ entry = Unset

Init == input \in Inputs /\ seekable = TRUE /\ Start

InitLive == input \in LiveInputs /\ seekable = TRUE /\ Start

Next ==
    \/ ReadStart
    \/ ClassifyFtyp
    \/ ClassifySignature
    \/ ClassifySkipJunk
    \/ ClassifyShift
    \/ CheckMoov
    \/ CheckFreeWide
    \/ CheckMdat
    \/ NestedWalk
    \/ VideoStart
    \/ VideoMatch
    \/ VideoMatchType5
    \/ VideoShift
    \/ JpegSkip
    \/ OpenOutput
    \/ RepairType1
    \/ RepairType2Start
    \/ RepairType2Loop
    \/ RepairType2Recover
    \/ RepairType4Loop
    \/ RepairType4Recover
    \/ RepairType3Start
    \/ RepairType5Start
    \/ RepairType35Read
    \/ RepairType35Track2
    \/ RepairType35Track2Short
    \/ RepairType35Metadata
    \/ RepairType35Metadata100
    \/ PrintPastEnd
    \/ RepairType35Anomalous
    \/ RepairType35Copy

Spec == Init /\ [][Next]_vars

\* The runs in which the file to repair may also be a pipe, on which no seek
\* succeeds.
InitAnyFile == input \in LiveInputs /\ seekable \in BOOLEAN /\ Start

AnyFileSpec == InitAnyFile /\ [][Next]_vars

\* The runs that put the signature predicates on every window of
\* VideoWindows and ResumeWindows.
InitWindows ==
    /\ input \in LiveInputs \cup VideoWindows \cup ResumeWindows
    /\ seekable = TRUE
    /\ Start

WindowSpec == InitWindows /\ [][Next]_vars

\* The program is one thread that never waits: while a statement remains to
\* be executed, it is executed.
FairSpec == InitLive /\ [][Next]_vars /\ WF_vars(Next)

---------------------------------------------------------------------------
(* Sanity of the model's representation.                                   *)

TypeOK ==
    /\ seekable \in BOOLEAN
    /\ pos \in Nat
    /\ eof \in BOOLEAN
    /\ status \in {-1, 0, 1}
    /\ repairType \in 1..5
    /\ outOpen \in BOOLEAN
    /\ outFill \in Nat
    /\ metadataIsPrintable \in {0, 1}
    /\ printedPastEnd \in {0, 1}
    /\ maxRestore \in Nat
    /\ (pc = "done") = (status # -1)

\* The 0xFF bytes counted by outFill are the last bytes of the output: once
\* one has been written, nothing else is.
FillIsLast == [][outFill > 0 => out' = out]_vars

---------------------------------------------------------------------------
(* Properties of the program.                                              *)

\* The parameter sets the running repair writes first.
ParameterSets ==
    writeParameterSets(IF repairType = 2 THEN type2Format(formatCode)
                       ELSE IF repairType = 3 THEN type3Format(formatCode)
                       ELSE type5Format(formatCode))

\* The length field of a record of the 'type 3'/'type 5' loop that is
\* neither anomalous nor the start of a 'track 2' or 'metadata' block.
IsRecordSize(size) ==
    /\ size[1] = 0
    /\ size # <<0, 0, 0, 0>>
    /\ size[2] \notin {248, 254}

\* Whether s consists solely of complete records: a 4-byte length L, then
\* exactly L payload bytes.
RECURSIVE IsRecordStream(_)
IsRecordStream(s) ==
    IF s = <<>> THEN TRUE
    ELSE IF Len(s) < 4 \/ ~IsRecordSize(SubSeq(s, 1, 4)) THEN FALSE
    ELSE LET L == Num(SubSeq(s, 1, 4))
         IN IF Len(s) < 4 + L THEN FALSE
            ELSE IsRecordStream(SubSeq(s, 5 + L, Len(s)))

\* Each record of such a stream as a start code and the record's payload.
RECURSIVE Reframed(_)
Reframed(s) ==
    IF s = <<>> THEN <<>>
    ELSE LET L == Num(SubSeq(s, 1, 4))
         IN <<0, 0, 0, 1>> \o SubSeq(s, 5, 4 + L)
            \o Reframed(SubSeq(s, 5 + L, Len(s)))

\* The side-track tests of the 'type 3'/'type 5' loop, taken together.
IsSideTrack(size, peek) ==
    \/ isTrack2Block(size)
    \/ isTrack2ShortBlock(size)
    \/ isMetadataBlock(size, peek)
    \/ isMetadata100Block(size)

\* C1: in a 'type 3' or 'type 5' repair of a file that, from the position
\* where the repair starts to its end, consists solely of complete records
\* (no side-track prefix), the output is the parameter sets and then, for
\* every record in order, a start code and the record's payload: no record,
\* the last one included, is dropped.  The loop's look-ahead of four bytes
\* makes it drop a last record whose payload is shorter than four bytes.
C1_Reframing ==
    (/\ pc = "done"
     /\ status = 0
     /\ outOpen
     /\ repairType \in {3, 5}
     /\ formatCode # ""
     /\ IsRecordStream(SubSeq(input, entry + 1, Len(input))))
    => /\ out = ParameterSets
                \o Reframed(SubSeq(input, entry + 1, Len(input)))
       /\ outFill = 0

\* C2: every run terminates: it reaches the end of the program.  The
\* 'type 3'/'type 5' loop returns to the same cursor position for ever on a
\* length 0x05c64e6f that is not followed by printable text, and the
\* metadata diagnostic reads for ever when the input ends before a
\* newline/NUL byte.
C2_Terminates == <>(pc = "done")

\* The stages of main that read the input looking for a repair to apply.
C3_Searching ==
    pc \in {"start", "classify", "moov", "free", "mdat", "nested", "video",
            "vscan", "jpeg"}

C4_AnomalyStops ==
    /\ [][(/\ pc = "r35_body"
           /\ (nalSize = <<0, 0, 0, 0>> \/ nalSize[1] # 0)
           /\ ~IsSideTrack(nalSize, next4Bytes))
          => (/\ pc' = "done"
              /\ status' = 0
              /\ out' = out
              /\ outFill' = outFill)]_vars
    /\ [][pc = "done" => (out' = out /\ outFill' = outFill)]_vars

\* A repair that wrote at least one NAL unit and then stopped at the length
\* 0xFFFFFFFF.
C4_Witness ==
    /\ pc = "done"
    /\ status = 0
    /\ repairType \in {3, 5}
    /\ nalSize = <<255, 255, 255, 255>>
    /\ Len(out) > Len(ParameterSets)

\* C5, as stated: for the input FF FF FF FF, FF FF FF FF, 00 00 00 02,
\* 27 64 00 2A, 00 00 00 05 and five bytes, the repair is of type 2 and the
\* output is the SPS, the PPS, 64 00 and the five bytes, each after a start
\* code.
C5_Scenario ==
    (input = Scenario8 /\ pc = "done" /\ outOpen)
    => /\ repairType = 2
       /\ out = ParameterSets \o <<0, 0, 0, 1>> \o <<100, 0>>
                \o <<0, 0, 0, 1>> \o <<17, 18, 19, 20, 21>>
       /\ outFill = 0

\* C5, amended: for the input FF FF FF FF, FF FF FF FF, 00 00 00 02, 27 64,
\* 00 00 00 05 and five bytes, the two junk words are skipped, the signature
\* is matched (the cursor is then at 16), the repair is of type 2 and the
\* output is the SPS, the PPS, 27 64 and the five bytes, each after a start
\* code.  For the input as stated the third NAL unit is 27 64 and the fourth
\* has the length 0x002A0000: it is 00 05, the five bytes and then 0xFF
\* bytes up to that length.
C5_ScenarioAmended ==
    /\ (input = Scenario8Amended /\ pc = "done" /\ outOpen)
       => /\ repairType = 2
          /\ entry = 16
          /\ out = ParameterSets \o <<0, 0, 0, 1>> \o <<39, 100>>
                   \o <<0, 0, 0, 1>> \o <<101, 184, 1, 2, 3>>
          /\ outFill = 0
    /\ (input = Scenario8 /\ pc = "done" /\ outOpen)
       => /\ repairType = 2
          /\ entry = 16
          /\ out = ParameterSets \o <<0, 0, 0, 1>> \o <<39, 100>>
                   \o <<0, 0, 0, 1>> \o <<0, 5, 17, 18, 19, 20, 21>>
          /\ outFill = 42 * 65536 - 7

\* The end of the repair of the amended scenario.
C5_Witness ==
    /\ input = Scenario8Amended
    /\ pc = "done"
    /\ status = 0
    /\ repairType = 2
    /\ Len(out) > 0

C7_FirstIteration ==
    /\ pc = "r2_loop"
    /\ repairType2Second4Bytes = <<39, 100, 0, 42>>
    /\ Len(out) = Len(ParameterSets) + 6

\* C7, as stated: the predicate matches the window 00 00 00 02 27 64 00 2A
\* and the window gives 64 00 as the first half of the first NAL length.
C7_Window ==
    /\ checkFor0x00000002(<<0, 0, 0, 2>>, <<39, 100, 0, 42>>)
    /\ C7_FirstIteration => <<nalSize[1], nalSize[2]>> = <<100, 0>>

\* C7, amended: the predicate matches the window 00 00 00 02 27 64 00 2A;
\* the first two bytes after the 00 00 00 02 of a matched window (27 64) are
\* written as the first NAL unit, and the last two (00 2A) are the high half
\* of the first NAL length, whose low half is the next two bytes of the
\* input.
C7_WindowAmended ==
    /\ checkFor0x00000002(<<0, 0, 0, 2>>, <<39, 100, 0, 42>>)
    /\ [][(pc = "r2" /\ pc' = "r2_loop")
          => LET s == repairType2Second4Bytes
             IN /\ out' = out \o ParameterSets' \o <<0, 0, 0, 1>>
                          \o <<s[1], s[2]>>
                /\ nalSize' = <<s[3], s[4], input[pos + 1], input[pos + 2]>>
         ]_vars

\* The first iteration on that window: the size is 0x002A0000.
C7_Witness == C7_FirstIteration /\ nalSize = <<0, 42, 0, 0>>

\* C8, as stated: when the file begins with a size of at least 8 and
\* 'ftyp', the candidate repair is type 1 and the cursor is moved forward by
\* size - 8, whatever the size.
C8_SkipsEverySize ==
    [][(/\ pc = "classify"
        /\ pos = 8
        /\ next4Bytes = <<102, 116, 121, 112>>
        /\ ~LT(first4Bytes, 8))
       => (/\ pc' = "moov"
           /\ repairType' = 1
           /\ pos' = pos + (Num(first4Bytes) - 8))]_vars

\* C8, amended: when the file begins with a size of at least 8 and 'ftyp',
\* the candidate repair is type 1; the cursor is moved forward by size - 8
\* when the size is at most 0xFF, and is not moved when it is larger.
C8_SkipsSmallSizes ==
    [][(/\ pc = "classify"
        /\ pos = 8
        /\ next4Bytes = <<102, 116, 121, 112>>
        /\ ~LT(first4Bytes, 8))
       => (/\ pc' = "moov"
           /\ repairType' = 1
           /\ pos' = (IF GT(first4Bytes, 255) THEN pos
                      ELSE pos + (Num(first4Bytes) - 8)))]_vars

\* The atom walk about to start after an initial 'ftyp' atom of 12 bytes.
C8_Witness ==
    /\ pc = "moov"
    /\ first4Bytes = <<0, 0, 0, 12>>
    /\ next4Bytes = <<102, 116, 121, 112>>
    /\ pos = 12
    /\ repairType = 1

\* C9: for every length whose high 16 bits are 0x01FE that the
\* 'type 3'/'type 5' loop comes to, the loop takes it up, moves the cursor
\* 508 bytes past it, writes nothing and goes on.  The loop's look-ahead of
\* four bytes (see C1) ends the repair instead when fewer than four bytes
\* follow the length.
C9_Track2Skip ==
    /\ [][(/\ pc = "r35"
           /\ ~eof
           /\ get4Bytes(input, pos).ok
           /\ Hi16(get4Bytes(input, pos).val) = 510)
          => (/\ pc' = "r35_body"
              /\ pos' = pos + 4
              /\ out' = out
              /\ outFill' = outFill)]_vars
    /\ [][(pc = "r35_body" /\ Hi16(nalSize) = 510)
          => (/\ pc' = "r35"
              /\ pos' = pos + 508
              /\ out' = out
              /\ outFill' = outFill)]_vars

\* C10: the 'type 1' patch applied to an output of the 'type 1' patch, with
\* the same size and the cursor after the 8-byte header, gives that output
\* again.
C10_PatchIdempotent ==
    (pc = "done" /\ status = 0 /\ repairType = 1)
    => doRepairType1(out, 8, repairType1FtypSize) = out

\* The end of a 'type 1' repair that copied data after the header.
C10_Witness ==
    /\ pc = "done"
    /\ status = 0
    /\ repairType = 1
    /\ Len(out) > 8

\* Whether the eight bytes at position p are an atom header with this tag,
\* and the size field of the header at p.
HeaderAt(p, tag) ==
    p + 8 <= Len(input) /\ SubSeq(input, p + 5, p + 8) = tag
SizeAt(p) == SubSeq(input, p + 1, p + 4)

\* C11: checkAtom called for 'mdat' at a header whose tag is 'mdat'
\* succeeds whatever the size field holds (0..7 and 1 included): the cursor
\* is 8 bytes past the start of the header, the end-of-file indicator and
\* the caller's variable are as they were, and the run is not ended; in
\* main, a 'ftyp' header that follows the 'mdat' header is then found at
\* that cursor, and without one the run goes on.
C11_MdatAnySize ==
    /\ [](HeaderAt(pos, fourcc_mdat)
          => checkAtom(input, pos, eof, fourcc_mdat, numBytesToSkip)
             = [ok |-> TRUE, exit |-> FALSE, skip |-> numBytesToSkip,
                pos |-> pos + 8, eof |-> eof])
    /\ [][(pc = "mdat" /\ HeaderAt(pos, fourcc_mdat)
             /\ HeaderAt(pos + 8, fourcc_ftyp)
             /\ SizeAt(pos + 8)[1] = 0 /\ ~LT(SizeAt(pos + 8), 8))
          => (pc' = "nested" /\ pos' = pos + 16)]_vars
    /\ [][(pc = "mdat" /\ HeaderAt(pos, fourcc_mdat)
             /\ ~HeaderAt(pos + 8, fourcc_ftyp))
          => status' = status]_vars

\* The nested walk reached through an 'mdat' header whose size field is 1.
C11_Witness ==
    /\ pc = "nested"
    /\ pos >= 16
    /\ HeaderAt(pos - 16, fourcc_mdat)
    /\ SizeAt(pos - 16) = <<0, 0, 0, 1>>

IsPrefix(a, b) == Len(a) <= Len(b) /\ SubSeq(b, 1, Len(a)) = a

\* The catalog entry of the running repair, and what the claim expects at
\* the start of the output: start code, SPS, start code, PPS and, when the
\* entry has one, start code, VPS.
C12_Profile ==
    IF repairType = 2 THEN type2Format(formatCode)
    ELSE IF repairType = 3 THEN type3Format(formatCode)
    ELSE type5Format(formatCode)
C12_Leading ==
    <<0, 0, 0, 1>> \o upToSentinel(C12_Profile.sps)
    \o <<0, 0, 0, 1>> \o upToSentinel(C12_Profile.pps)
    \o (IF C12_Profile.vps = <<>> THEN <<>>
        ELSE <<0, 0, 0, 1>> \o upToSentinel(C12_Profile.vps))

\* C12: in a repair of type 2, 3 or 5 the output begins with start code +
\* SPS, start code + PPS and (only when the profile has one) start code +
\* VPS; the output only grows at its end, and whatever is written after the
\* first write (in a 'type 4' repair: whatever is written) is a start code
\* followed by bytes of the input, so that the parameter sets are written
\* once and before any byte of the input.  A 'type 4' output begins with a
\* start code followed by the first input byte after the length field at
\* the place where the repair starts; a 'type 1' output is the 8-byte header
\* and the rest of the input.
C12_ParameterSetsFirst ==
    /\ [](repairType \in {2, 3, 5} /\ out # <<>>
          => IsPrefix(C12_Leading, out))
    /\ [][out' # out => IsPrefix(out, out')]_vars
    /\ [][(repairType \in 2..5 /\ out' # out
             /\ (out # <<>> \/ repairType = 4))
          => LET added == SubSeq(out', Len(out) + 1, Len(out'))
             IN /\ IsPrefix(<<0, 0, 0, 1>>, added)
                /\ \E q \in 0..Len(input) :
                      SubSeq(added, 5, Len(added))
                      = SubSeq(input, q + 1, q + Len(added) - 4)]_vars
    /\ [](repairType = 4 /\ out # <<>>
          => /\ IsPrefix(<<0, 0, 0, 1>>, out)
             /\ Len(out) > 4
             /\ out[5] = input[entry + 5])
    /\ [](repairType = 1 /\ out # <<>>
          => /\ SubSeq(out, 5, 8) = <<102, 116, 121, 112>>
             /\ SubSeq(out, 9, Len(out))
                = SubSeq(input, entry + 1, Len(input)))

\* The end of a 'type 3' repair with the H.265 profile (which has a VPS)
\* that wrote at least one NAL unit after the parameter sets.
C12_Witness ==
    /\ pc = "done"
    /\ repairType = 3
    /\ formatCode = "6"
    /\ Len(out) > Len(C12_Leading) + 4

\* 1 <= size <= ceiling, for a ceiling below 2^24.
InRange(size, ceiling) ==
    IF size[1] # 0 THEN FALSE
    ELSE Num(size) >= 1 /\ Num(size) <= ceiling

\* C13: whenever a re-framing loop writes (a start code and the payload it
\* copies), the length it copies is at least 1 and at most 0x008FFFFF in
\* the loops of types 2 and 4, at most 0x00FFFFFF in the loop of types 3 and
\* 5; the first length of a 'type 2' repair is one of these lengths.  That
\* first length is used as it is: doRepairType2 tests only the lengths it
\* reads after a NAL unit.
C13_LengthsInRange ==
    /\ [][(pc = "r2_loop" /\ out' # out)
          => InRange(nalSize, 9437183)]_vars
    /\ [][(pc \in {"r4", "r4_recover"} /\ out' # out)
          => InRange(nalSize', 9437183)]_vars
    /\ [][(pc = "r35_body" /\ out' # out)
          => InRange(nalSize, 16777215)]_vars

\* Whether s consists solely of complete records whose lengths are between
\* 1 and 0x008FFFFF.
RECURSIVE IsRecordStream24(_)
IsRecordStream24(s) ==
    IF s = <<>> THEN TRUE
    ELSE IF Len(s) < 4 \/ ~InRange(SubSeq(s, 1, 4), 9437183) THEN FALSE
    ELSE LET L == Num(SubSeq(s, 1, 4))
         IN IF Len(s) < 4 + L THEN FALSE
            ELSE IsRecordStream24(SubSeq(s, 5 + L, Len(s)))

\* C14: in a 'type 4' repair of a file that, from the position where the
\* repair starts to its end, consists solely of complete records with
\* lengths between 1 and 0x008FFFFF, the whole output is, for every record
\* in order, a start code and the record's payload: no parameter set comes
\* first, no byte of a length field is copied, nothing is added.
C14_Type4Reframing ==
    (/\ pc = "done"
     /\ status = 0
     /\ outOpen
     /\ repairType = 4
     /\ IsRecordStream24(SubSeq(input, entry + 1, Len(input))))
    => /\ out = Reframed(SubSeq(input, entry + 1, Len(input)))
       /\ outFill = 0

\* The end of a 'type 4' repair of three complete records.
C14_Witness ==
    /\ pc = "done"
    /\ status = 0
    /\ repairType = 4
    /\ IsRecordStream24(SubSeq(input, entry + 1, Len(input)))
    /\ Len(input) - entry = 15 + 9 + 6
    /\ Len(out) = 15 + 9 + 6

\* A header at p with this tag whose size field is 1.
Size1At(p, tag) == HeaderAt(p, tag) /\ SizeAt(p) = <<0, 0, 0, 1>>

\* A header at p with this tag and a size that checkAtom accepts; the
\* position just after the atom.
GoodAt(p, tag) ==
    HeaderAt(p, tag) /\ SizeAt(p)[1] = 0 /\ Num(SizeAt(p)) >= 8
AfterAtom(p) == p + Num(SizeAt(p))

\* The places where main, at this state, is about to call checkAtom for a
\* tag other than 'mdat' and the header there has that tag and the size 1.
C15_ExtendedSizeAhead ==
    \/ pc = "moov" /\ Size1At(pos, fourcc_moov)
    \/ pc = "free" /\ Size1At(pos, fourcc_free)
    \/ pc = "free" /\ Size1At(pos, fourcc_wide)
    \/ pc = "mdat" /\ HeaderAt(pos, fourcc_mdat)
                   /\ Size1At(pos + 8, fourcc_ftyp)
    \/ pc = "nested" /\ Size1At(pos + numBytesToSkip, fourcc_moov)
    \/ /\ pc = "nested"
       /\ GoodAt(pos + numBytesToSkip, fourcc_moov)
       /\ HeaderAt(AfterAtom(pos + numBytesToSkip), fourcc_mdat)
       /\ Size1At(AfterAtom(pos + numBytesToSkip) + 8, fourcc_ftyp)

\* C15: when checkAtom reads a header that has the tag it was called for
\* (other than 'mdat') and the size 1, the run ends in that step with
\* failure status; no output file has been opened and nothing has been
\* written.
C15_ExtendedSizeFatal ==
    [][C15_ExtendedSizeAhead
       => (/\ pc' = "done"
           /\ status' = 1
           /\ ~outOpen'
           /\ out' = <<>>
           /\ outFill' = 0)]_vars

\* A run ended by the size 1 of a 'ftyp' header met in the walk over
\* repeated 'ftyp', 'moov', 'mdat' prefixes.
C15_Witness ==
    /\ pc = "done"
    /\ status = 1
    /\ ~eof
    /\ numBytesToSkip = 0
    /\ pos >= 8
    /\ Size1At(pos - 8, fourcc_ftyp)

\* C16: a call of checkAtom that fails (the tag differs, the size is below
\* 8, or fewer than 8 bytes are left) leaves the cursor where it was when
\* the call started: after the failed check for 'moov' the check for 'free'
\* starts at the same position, and after a failed check for 'mdat' the
\* search for video starts there.  checkAtom seeks back 8 bytes however many
\* bytes it has read, so that at the end of the file the cursor ends before
\* the position of the call.
C16_FailureRestoresCursor ==
    /\ [][(pc = "moov" /\ pc' = "free" /\ ~GoodAt(pos, fourcc_moov))
          => pos' = pos]_vars
    /\ [][(pc = "mdat" /\ ~HeaderAt(pos, fourcc_mdat))
          => (pc' = "video" /\ pos' = pos)]_vars

\* The states from which the next step of the run calls fseek: the skip of
\* the initial atom, the rewind of a failed check for 'moov', the return to
\* the start of the window that holds video of type 4 or 5, and in the loop
\* of types 3 and 5 the return over the four bytes looked at and the skip of
\* a 'track 2' block.
C17_SeekAhead ==
    \/ /\ pc = "classify"
       /\ next4Bytes \in {fourcc_ftyp, fourcc_isom}
       /\ ~badInitialAtomSize(first4Bytes)
    \/ pc = "moov" /\ ~HeaderAt(pos, fourcc_moov)
    \/ /\ pc = "vscan"
       /\ first4Bytes # <<0, 0, 0, 2>>
       /\ (checkForVideo(first4Bytes, next4Bytes)
           \/ looksLikeType5(first4Bytes, next4Bytes))
    \/ pc = "r35" /\ ~eof /\ pos + 8 <= Len(input)
    \/ pc = "r35_body" /\ Hi16(nalSize) = 510

\* C17: a step in which a seek fails ends the run with failure status.  On
\* an input that cannot seek every fseek fails; only the skip of the initial
\* atom and the skips of the atoms of the box walk end the run with failure
\* then.  A failed rewind in checkAtom is reported and the walk goes on, the
\* returns over bytes looked at are not tested, and a failed skip in the
\* loop of types 3 and 5 ends the repair with success status.
C17_SeekFailureFatal ==
    [][(~seekable /\ C17_SeekAhead) => (pc' = "done" /\ status' = 1)]_vars

\* The first four data bytes after an 'mdat' header at p are 'mijd' or the
\* JPEG header FF D8 FF E0.
C18_PreviewAt(p) ==
    /\ HeaderAt(p, fourcc_mdat)
    /\ p + 12 <= Len(input)
    /\ SubSeq(input, p + 9, p + 12) \in {fourcc_mijd, JFIF_header}

\* C18: the step of main that looks for 'mdat' goes on to the skip of the
\* JPEG previews (repair type 3) exactly when it finds an 'mdat' header that
\* no 'ftyp' header follows and whose first four data bytes are 'mijd' or
\* FF D8 FF E0; type 3 is kept only when the end of the previews (FF D9 not
\* followed by FF D8) is found; in every other case without a nested 'ftyp'
\* the search for video starts, with type 2, at the first data byte (at the
\* place of the call when there is no 'mdat' header).  The rewind of
\* checkAtom at the end of the file (see C16) moves the cursor before the
\* first data byte when fewer than 8 bytes follow the 'mdat' header.
C18_Type3Selection ==
    /\ [][pc = "mdat"
          => (pc' = "jpeg") = (C18_PreviewAt(pos)
                               /\ ~HeaderAt(pos + 8, fourcc_ftyp))]_vars
    /\ [][pc' = "jpeg" => (pc \in {"mdat", "jpeg"} /\ repairType' = 3)]_vars
    /\ [][(pc = "jpeg" /\ pc' = "open")
          => (/\ byte1 = 255
              /\ input[pos + 1] = 217
              /\ <<input[pos + 2], input[pos + 3]>> # <<255, 216>>)]_vars
    /\ [](outOpen /\ repairType = 3 => byte1 = 255)
    /\ [][(pc = "mdat" /\ pc' = "video")
          => (/\ repairType' = 2
              /\ pos' = (IF HeaderAt(pos, fourcc_mdat) THEN pos + 8
                         ELSE pos))]_vars

\* The 'type 5' pattern of the search: a length below 0x01000000 followed
\* by the bytes 65 B8.
C19_Type5Pattern(lead, trail) ==
    lead[1] = 0 /\ trail[1] = 101 /\ trail[2] = 184

\* C19: during the search for video the window always holds the 8 input
\* bytes before the cursor, and each step decides on the current window
\* alone: checkForVideo with a length of 2 keeps type 2 (and records the
\* second word), checkForVideo otherwise gives type 4, and only when
\* checkForVideo fails does the 'type 5' pattern give type 5; a window that
\* matches nothing is shifted by exactly one byte, or ends the run with a
\* failure when no byte is left.  So the first matching window decides, and
\* the repair type is not changed afterwards.
C19_VideoSearch ==
    /\ [](pc = "vscan"
          => (/\ pos >= 8 /\ pos <= Len(input)
              /\ first4Bytes = SubSeq(input, pos - 7, pos - 4)
              /\ next4Bytes = SubSeq(input, pos - 3, pos)
              /\ repairType = 2))
    /\ [][pc = "vscan"
          => LET lead == first4Bytes
                 trail == next4Bytes
             IN CASE checkForVideo(lead, trail) /\ lead = <<0, 0, 0, 2>> ->
                       /\ pc' = "open" /\ repairType' = 2
                       /\ repairType2Second4Bytes' = trail
                       /\ pos' = pos /\ status' = -1
                  [] checkForVideo(lead, trail) /\ lead # <<0, 0, 0, 2>> ->
                       /\ pc' = "open" /\ repairType' = 4
                       /\ pos' = pos - 8 /\ status' = -1
                  [] ~checkForVideo(lead, trail)
                       /\ C19_Type5Pattern(lead, trail) ->
                       /\ pc' = "open" /\ repairType' = 5
                       /\ pos' = pos - 8 /\ status' = -1
                  [] OTHER ->
                       IF pos < Len(input)
                       THEN /\ pc' = "vscan" /\ pos' = pos + 1
                            /\ status' = -1
                       ELSE status' = 1 /\ ~outOpen' /\ out' = <<>>]_vars
    /\ [][(pc = "open" \/ outOpen) => repairType' = repairType]_vars

\* C19 witness: the search has stopped on a window that matches both
\* checkForVideo (length 2) and the 'type 5' pattern, and type 2 was kept.
C19_Witness ==
    /\ pc = "open"
    /\ repairType = 2
    /\ first4Bytes = <<0, 0, 0, 2>>
    /\ C19_Type5Pattern(first4Bytes, next4Bytes)
    /\ repairType2Second4Bytes = next4Bytes

\* C20: the re-framing loops write no filler: every payload byte in the
\* output was read from the input, also when the input ends inside a NAL
\* unit.  The copy loops do not test fgetc() for EOF, so for a declared
\* length L with fewer than L bytes left they write the bytes that exist
\* and then 0xFF (the low byte of EOF) for each missing one.
C20_NoFiller == outFill = 0

\* An atom header with this tag at p whose size field is 8 or more.
ValidAtom(p, tag) ==
    HeaderAt(p, tag) /\ SizeAt(p)[1] < 128 /\ Num(SizeAt(p)) >= 8

\* From a 'ftyp' header at p: the place of the next nested 'ftyp' header
\* ('ftyp' data, a 'moov' atom, an 'mdat' header, then 'ftyp'), or -1.
NextNestedFtyp(p) ==
    LET q == p + Num(SizeAt(p))
    IN IF ~ValidAtom(q, fourcc_moov) THEN -1
       ELSE LET r == q + Num(SizeAt(q))
            IN IF HeaderAt(r, fourcc_mdat) /\ ValidAtom(r + 8, fourcc_ftyp)
               THEN r + 8
               ELSE -1

\* C21: the walk over nested 'ftyp' atoms starts after the 'ftyp' header
\* that follows the first 'mdat' header and moves from one 'ftyp' header to
\* the next nested one; it ends, whichever of its steps fails, with the
\* cursor after the last 'ftyp' header found and that header's size (8 or
\* more) as the size for the repair; a finished 'type 1' repair has written
\* exactly the input from that header to the end of the file.
C21_Type1Suffix ==
    /\ [][(pc = "mdat" /\ pc' = "nested")
          => (/\ HeaderAt(pos, fourcc_mdat)
              /\ pos' = pos + 16
              /\ ValidAtom(pos + 8, fourcc_ftyp))]_vars
    /\ [][(pc = "nested" /\ pc' = "nested")
          => (pos' - 8 = NextNestedFtyp(pos - 8) /\ out' = <<>>)]_vars
    /\ [][(pc = "nested" /\ pc' = "open")
          => (/\ NextNestedFtyp(pos - 8) = -1
              /\ pos' = pos
              /\ repairType' = 1
              /\ repairType1FtypSize' = SizeAt(pos - 8))]_vars
    /\ [](pc = "nested" => ValidAtom(pos - 8, fourcc_ftyp))
    /\ []((pc = "done" /\ status = 0 /\ repairType = 1)
          => (/\ ValidAtom(entry - 8, fourcc_ftyp)
              /\ NextNestedFtyp(entry - 8) = -1
              /\ repairType1FtypSize = SizeAt(entry - 8)
              /\ SubSeq(out, 5, 8) = fourcc_ftyp
              /\ out = SubSeq(input, entry - 7, Len(input))
              /\ outFill = 0))

\* C21 witness: a finished 'type 1' repair whose walk went on to a second
\* nested 'ftyp' header (of size 9) and failed after it, with data copied
\* after the header.
C21_Witness ==
    /\ pc = "done"
    /\ status = 0
    /\ repairType = 1
    /\ repairType1FtypSize = <<0, 0, 0, 9>>
    /\ numBytesToSkip = 1
    /\ Len(out) > 9

\* The 8-byte window that starts at offset j holds 'ftyp' or 'isom' in its
\* second word, or the legacy signature.
C22_MatchAt(j) ==
    /\ j + 8 <= Len(input)
    /\ LET lead == SubSeq(input, j + 1, j + 4)
           trail == SubSeq(input, j + 5, j + 8)
       IN \/ trail = fourcc_ftyp
          \/ trail = fourcc_isom
          \/ /\ lead = <<0, 0, 0, 2>>
             /\ trail[1] # 0 /\ trail[2] # 0 /\ trail[3] = 0

\* C22: the classifier at the start of the file looks at the window of
\* every offset in turn: a step that stays in the classifier moves the
\* window by one byte, the classifier stops on a window only when no window
\* at a smaller offset holds 'ftyp'/'isom' or the legacy signature, and it
\* gives up only when no window of the file does.  The skip of a
\* 0x00000000 or 0xFFFFFFFF word (lines 301-313) moves the window by four
\* bytes, so the windows that start 1 to 3 bytes into such a word are never
\* looked at.
C22_EveryOffset ==
    /\ [](pc = "classify"
          => (/\ first4Bytes = SubSeq(input, pos - 7, pos - 4)
              /\ next4Bytes = SubSeq(input, pos - 3, pos)))
    /\ [][(pc = "classify" /\ pc' = "classify") => pos' = pos + 1]_vars
    /\ [][(pc = "classify" /\ pc' \in {"moov", "open"})
          => (/\ C22_MatchAt(pos - 8)
              /\ \A j \in 0..(pos - 9) : ~C22_MatchAt(j))]_vars
    /\ [][(pc = "classify" /\ status' = 1)
          => \A j \in 0..(Len(input) - 8) : ~C22_MatchAt(j)]_vars

\* The legacy signature, and a length between lo and hi, on a window.
C23_Legacy(lead, trail) ==
    lead = <<0, 0, 0, 2>> /\ trail[1] # 0 /\ trail[2] # 0 /\ trail[3] = 0
C23_LengthIn(lead, lo, hi) ==
    lead[1] = 0 /\ lead[2] = 0 /\ lead[3] = 0 /\ lead[4] >= lo /\ lead[4] <= hi

\* The search for video stops on the current window through checkForVideo.
C23_Accepted == pc' = "open" /\ repairType' \in {2, 4}

\* C23: checkForVideo accepts a window exactly when it holds the legacy
\* signature or its trail begins with one of 0x26, 0x27, 0x40, 0x67 and its
\* lead is a length in that marker's range, a range within 10..60 that is
\* not empty; every window with the legacy signature is accepted.  The code
\* has no case for 0x26: no length is accepted before that byte.
C23_Accepts ==
    /\ [][pc = "vscan"
          => /\ C23_Accepted
                => \/ C23_Legacy(first4Bytes, next4Bytes)
                   \/ /\ next4Bytes[1] \in {38, 39, 64, 103}
                      /\ C23_LengthIn(first4Bytes, 10, 60)
             /\ C23_Legacy(first4Bytes, next4Bytes) => C23_Accepted]_vars
    /\ [](\A m \in {38, 39, 64, 103} :
             \E n \in 10..60 : checkForVideo(W(n), <<m, 1, 0, 0>>))

\* C23 as the code has it: checkForVideo accepts a window exactly when it
\* holds the legacy signature, or its trail begins with 0x27 and its lead
\* is in 26..59, or with 0x40 and a lead in 31..59, or with 0x67 and a lead
\* in 11..39; so every window with the legacy signature is accepted.
C23_AcceptsAmended ==
    [][pc = "vscan"
       => (C23_Accepted
           <=> \/ C23_Legacy(first4Bytes, next4Bytes)
               \/ /\ next4Bytes[1] = 39
                  /\ C23_LengthIn(first4Bytes, 26, 59)
               \/ /\ next4Bytes[1] = 64
                  /\ C23_LengthIn(first4Bytes, 31, 59)
               \/ /\ next4Bytes[1] = 103
                  /\ C23_LengthIn(first4Bytes, 11, 39))]_vars

\* C23 witness: the search has stopped on the window with the smallest
\* length accepted before 0x40, and the cursor is back at its start.
C23_Witness ==
    /\ pc = "open"
    /\ repairType = 4
    /\ first4Bytes = <<0, 0, 0, 31>>
    /\ next4Bytes[1] = 64
    /\ pos = 16

\* The first two bytes of the trail are one of the NAL headers that
\* checkForVideoType4 knows.
C24_KnownHeader(trail) ==
    \/ trail[1] \in {0, 2, 38, 40, 64, 66, 68} /\ trail[2] = 1
    \/ trail[1] = 1 /\ trail[2] = 253
    \/ trail[1] = 65 /\ trail[2] >= 224 /\ trail[2] <= 252
    \/ trail[1] = 101 /\ trail[2] = 184

\* What checkForVideo accepts (see C23).
C24_VideoWindow(lead, trail) ==
    \/ C23_Legacy(lead, trail)
    \/ trail[1] = 39 /\ C23_LengthIn(lead, 26, 59)
    \/ trail[1] = 64 /\ C23_LengthIn(lead, 31, 59)
    \/ trail[1] = 103 /\ C23_LengthIn(lead, 11, 39)

\* C24: in the recovery of a 'type 4' repair, every window that
\* checkForVideo accepts is taken as the place to resume.  The list of
\* checkForVideoType4 has no 0x27 and no 0x67 (an SPS "needs to be correct,
\* so ignore this"), and wants 0x01 after 0x40.
C24_Type4Looser ==
    [][(pc = "r4_recover" /\ C24_VideoWindow(nalSize, next4Bytes))
       => pc' = "r4"]_vars

\* C24 as the code has it: a window that checkForVideo accepts is taken as
\* the place to resume exactly when its trail begins with a NAL header of
\* checkForVideoType4's list; a window whose trail begins with 0x27 or 0x67
\* never is, and any window with a length in 1..0x008FFFFF and such a header
\* is.
C24_Type4NotLooser ==
    /\ [][(pc = "r4_recover" /\ C24_VideoWindow(nalSize, next4Bytes))
          => (pc' = "r4" <=> C24_KnownHeader(next4Bytes))]_vars
    /\ [][(pc = "r4_recover" /\ next4Bytes[1] \in {39, 103})
          => pc' # "r4"]_vars
    /\ [][pc = "r4_recover"
          => (pc' = "r4"
              <=> /\ C24_KnownHeader(next4Bytes)
                  /\ nalSize # <<0, 0, 0, 0>>
                  /\ nalSize[1] = 0 /\ nalSize[2] < 144)]_vars

\* C24 witness: the recovery has resumed on a window that checkForVideo
\* accepts as well (a length of 31 before 40 01), and has copied from it.
C24_Witness ==
    /\ pc = "r4"
    /\ nalSize = <<0, 0, 0, 31>>
    /\ SubSeq(next4Bytes, 1, 2) = <<64, 1>>
    /\ Len(out) > 19

\* The window is accepted by the recovery of a 'type 4' repair: a length in
\* 1..0x008FFFFF before a known NAL header.
C25_ResumeWindow(lead, trail) ==
    /\ C24_KnownHeader(trail)
    /\ lead # <<0, 0, 0, 0>>
    /\ lead[1] = 0 /\ lead[2] < 144

\* C25: the recovery of a 'type 4' repair starts on the window made of the
\* anomalous length and the four bytes after it, and writes nothing on
\* entry; its window always holds the 8 input bytes before the cursor; a
\* window that is not accepted is shifted by one byte with no output, or
\* ends the repair, the output as it was, when no byte is left; on an
\* accepted window the next NAL unit written is a start code and then as
\* many bytes as the window's lead says, taken from the start of the
\* window's trail on, and the loop goes on after them.
C25_Type4Recovery ==
    /\ [][(pc = "r4" /\ pc' = "r4_recover")
          => (/\ ~C25_ResumeWindow(nalSize', next4Bytes')
              /\ pos' = pos + 8
              /\ out' = out /\ outFill' = outFill)]_vars
    /\ [](pc = "r4_recover"
          => (/\ nalSize = SubSeq(input, pos - 7, pos - 4)
              /\ next4Bytes = SubSeq(input, pos - 3, pos)))
    /\ [][pc = "r4_recover"
          => IF C25_ResumeWindow(nalSize, next4Bytes)
             THEN LET L == Num(nalSize)
                      last == IF pos - 4 + L <= Len(input) THEN pos - 4 + L
                              ELSE Len(input)
                  IN /\ pc' = "r4"
                     /\ out' = out \o <<0, 0, 0, 1>>
                                   \o SubSeq(input, pos - 3, last)
                     /\ outFill' = outFill + (pos - 4 + L - last)
                     /\ pos' = last
                     /\ status' = -1
             ELSE /\ out' = out /\ outFill' = outFill
                  /\ IF pos < Len(input)
                     THEN pc' = "r4_recover" /\ pos' = pos + 1
                          /\ status' = -1
                     ELSE pc' = "done" /\ status' = 0]_vars

\* C25 witness: the recovery has resumed on the window 00 00 00 05 65 B8 01
\* 02, and the NAL unit 65 B8 01 02 03 is the last thing written.
C25_Witness ==
    /\ pc = "r4"
    /\ nalSize = <<0, 0, 0, 5>>
    /\ next4Bytes = <<101, 184, 1, 2>>
    /\ Len(out) >= 9
    /\ SubSeq(out, Len(out) - 8, Len(out)) = <<0, 0, 0, 1, 101, 184, 1, 2, 3>>

\* The step of the 'type 3'/'type 5' loop that handles a length taken as the
\* start of a metadata block of variable size.
C26_MetadataStep ==
    /\ pc = "r35_body"
    /\ Hi16(nalSize) # 510
    /\ ~isTrack2ShortBlock(nalSize)
    /\ \/ nalSize = <<5, 198, 78, 111>>
       \/ nalSize[1] = 0 /\ nalSize[2] = 248 /\ next4Bytes = <<32, 48, 48, 32>>

\* C26: when the text of a metadata block of variable size is found not to
\* be printable (or its count is below 4), metadataIsPrintable is cleared
\* and is never set again; with it cleared no such block is skipped and the
\* counter is left alone; and the loop goes on at a cursor that lies after
\* the start of the length field that led to the test (the cursor at the
\* step is 4 bytes after that start).  For the length 0x05c64e6f the two
\* seeks of -2 (lines 1208 and 1250) put the cursor back on the start of the
\* length field itself (see C2).
C26_DetectionDisabled ==
    /\ [][metadataIsPrintable = 0 => metadataIsPrintable' = 0]_vars
    /\ [][(C26_MetadataStep /\ metadataIsPrintable = 0)
          => (/\ printableMetadataCount' = printableMetadataCount
              /\ pos' <= pos + 248
              /\ out' = out)]_vars
    /\ [][(C26_MetadataStep /\ pc' = "r35"
           /\ printableMetadataCount' = printableMetadataCount)
          => (metadataIsPrintable' = 0 /\ pos' > pos - 4)]_vars

\* Where the cursor is after the skip of a metadata block whose length
\* field ends at p: 0x100 bytes from the start of the length 0x00fe462f,
\* 0x5c6 bytes from the 'N' of 0x05c64e6f, and otherwise the two-byte count
\* found after 0xF6 bytes.
C27_AfterSkip(p) ==
    IF nalSize = <<0, 254, 70, 47>> THEN p + 252
    ELSE IF nalSize = <<5, 198, 78, 111>> THEN p + 1476
    ELSE p + 248 + (input[p + 247] * 256 + input[p + 248])

\* C27: a step of the 'type 3'/'type 5' loop that counts a metadata block,
\* the first one (whose text is shown) like any later one, writes nothing
\* and leaves the cursor after the block, and the loop goes on; the text is
\* shown for the first block only.  The loop that shows the text reads up
\* to a newline (or NUL) and does not test for the end of the file: when
\* the file ends before such a byte the loop never ends (see C2), the cursor
\* stays at the end of the file and no skip follows.
C27_SurfacingIsSideEffect ==
    /\ [][printableMetadataCount' # printableMetadataCount
          => (/\ pc = "r35_body"
              /\ printableMetadataCount' = printableMetadataCount + 1
              /\ out' = out /\ outFill' = outFill
              /\ pc' = "r35"
              /\ pos' = C27_AfterSkip(pos))]_vars
    /\ [][(pc # "print" /\ pc' = "print") => printableMetadataCount = 0]_vars
    /\ [](pc = "print" => printableMetadataCount = 1)

\* The most that the relative seeks of one step can move the cursor back:
\* 8 bytes, and twice 8 in the step that calls checkAtom for 'free' and
\* then for 'wide', each call rewinding 8.
C28_StepRewind == IF pc = "free" THEN 16 ELSE 8

C29_FirstLengthGood ==
    /\ [][(pc = "vscan" /\ pc' = "open" /\ repairType' \in {4, 5})
          => (/\ pos' = pos - 8
              /\ SubSeq(input, pos' + 1, pos' + 4) = first4Bytes
              /\ first4Bytes # <<0, 0, 0, 0>>
              /\ first4Bytes[1] = 0
              /\ repairType' = 4 => first4Bytes[2] < 144)]_vars
    /\ [][(pc = "r4" /\ pos = entry /\ out = <<>>)
          => (pc' = "r4" /\ Len(out') > 4)]_vars
    /\ [][(pc = "r35_body" /\ repairType = 5 /\ pos = entry + 4)
          => (pc' = "r35" /\ Len(out') > Len(out) + 4)]_vars

\* C30: when main reaches the output file and the dispatch with repair type
\* 2, repairType2Second4Bytes has been assigned: it is the second word of
\* the window just before the cursor, and that window holds the legacy
\* signature (00 00 00 02, two non-zero bytes, a zero byte), whether it was
\* found at the start of the file or by the search for video; with repair
\* type 1, repairType1FtypSize has been assigned: it is the size, 8 or more,
\* of the 'ftyp' header that ends at the cursor.
C30_DispatchValuesSet ==
    /\ (pc \in {"open", "r2"} /\ repairType = 2)
       => (/\ repairType2Second4Bytes # UnsetWord
           /\ pos >= 8
           /\ SubSeq(input, pos - 7, pos - 4) = <<0, 0, 0, 2>>
           /\ SubSeq(input, pos - 3, pos) = repairType2Second4Bytes
           /\ repairType2Second4Bytes[1] # 0
           /\ repairType2Second4Bytes[2] # 0
           /\ repairType2Second4Bytes[3] = 0)
    /\ (pc \in {"open", "r1"} /\ repairType = 1)
       => (/\ repairType1FtypSize # UnsetWord
           /\ ValidAtom(pos - 8, fourcc_ftyp)
           /\ repairType1FtypSize = SizeAt(pos - 8)
           /\ HeaderAt(pos - 16, fourcc_mdat))

\* C30 witness: the dispatch of a 'type 2' repair whose signature was found
\* by the search for video, after junk in the 'mdat' data.
C30_Witness ==
    /\ pc = "r2"
    /\ HeaderAt(8, fourcc_mdat)
    /\ pos > 24
    /\ repairType2Second4Bytes = next4Bytes

---------------------------------------------------------------------------
(* C31: the entry point of a 'type 3' repair.                              *)

\* Whether the two bytes that follow the first p bytes of the input are an
\* end of the JPEG previews: FF D9, and not FF D8 right after it (also when
\* fewer than two bytes follow it).
C31_EndOfPreviews(p) ==
    /\ p >= 0
    /\ p + 2 <= Len(input)
    /\ input[p + 1] = 255
    /\ input[p + 2] = 217
    /\ ~(/\ p + 4 <= Len(input)
         /\ input[p + 3] = 255
         /\ input[p + 4] = 216)

\* C31: the skip over the JPEG previews passes no end of the previews; it
\* ends with success exactly on the first one, with the cursor on the byte
\* after its FF D9, or 8 bytes further when an 'mdat' header is there; and
\* it ends with failure only when no end of the previews is left in the
\* input, an FF D9 followed by fewer than two bytes counting as one.
C31_Type3Entry ==
    /\ [][(pc = "jpeg" /\ pc' = "jpeg")
          => \A p \in (pos - 1)..(pos' - 2) : ~C31_EndOfPreviews(p)]_vars
    /\ [][(pc = "jpeg" /\ pc' = "open")
          => (/\ C31_EndOfPreviews(pos - 1)
              /\ pos' = (IF HeaderAt(pos + 1, fourcc_mdat) THEN pos + 9
                         ELSE pos + 1))]_vars
    /\ [][(pc = "jpeg" /\ status' = 1)
          => \A p \in (pos - 1)..Len(input) : ~C31_EndOfPreviews(p)]_vars

---------------------------------------------------------------------------
(* C32: the order of the tests of the 'type 3'/'type 5' loop.              *)

\* The high 16 bits that mark a 0x1F9-byte block of a side track: 0x211C,
\* 0x212C, 0x214E, 0x217C, 0x2ECF, 0x3811, 0x5D9C, 0x5DBB, 0x8021.
C32_ShortBlockMarks ==
    {8476, 8492, 8526, 8572, 11983, 14353, 23964, 23995, 32801}

\* C32: the 'type 3'/'type 5' loop takes up every length it comes to whose
\* high 16 bits are one of these marks, or that is 0x00FE462F, and tests
\* for the side track and the metadata before it tests for an anomalous
\* length: with such a mark the cursor goes to the start of the block plus
\* 0x1F9, with 0x00FE462F to the start of the block plus 0x100; nothing is
\* written and the loop goes on, the repair neither stops nor copies the
\* block.
C32_SideTrackFirst ==
    /\ [][(/\ pc = "r35"
           /\ ~eof
           /\ get4Bytes(input, pos).ok
           /\ \/ Hi16(get4Bytes(input, pos).val) \in C32_ShortBlockMarks
              \/ get4Bytes(input, pos).val = <<0, 254, 70, 47>>)
          => (/\ pc' = "r35_body"
              /\ pos' = pos + 4
              /\ out' = out
              /\ outFill' = outFill)]_vars
    /\ [][(pc = "r35_body" /\ Hi16(nalSize) \in C32_ShortBlockMarks)
          => (/\ pc' = "r35"
              /\ pos' = (pos - 4) + 505
              /\ out' = out
              /\ outFill' = outFill)]_vars
    /\ [][(pc = "r35_body" /\ nalSize = <<0, 254, 70, 47>>)
          => (/\ pc' = "r35"
              /\ pos' = (pos - 4) + 256
              /\ out' = out
              /\ outFill' = outFill)]_vars

---------------------------------------------------------------------------
(* C33: an initial 'ftyp' or 'isom' atom with a size out of range.         *)

\* The window of the classifier holds the tag 'ftyp' or 'isom' after a size
\* below 8 or above 0xFF.
C33_OutOfRange ==
    /\ pc = "classify"
    /\ next4Bytes \in {fourcc_ftyp, fourcc_isom}
    /\ LT(first4Bytes, 8) \/ GT(first4Bytes, 255)

\* C33: when the window of the classifier holds 'ftyp' or 'isom' after a
\* size below 8 (0 and 1 included) or above 0xFF, the run does not fail:
\* the window being the eight bytes before the cursor, the cursor stays
\* where it is, right after the header, the repair type stays 1, and the
\* atom walk starts there with the check for 'moov'.
C33_BadSizeIgnored ==
    [][C33_OutOfRange
       => (/\ SubSeq(input, pos - 7, pos) = first4Bytes \o next4Bytes
           /\ pos' = pos
           /\ eof' = eof
           /\ pc' = "moov"
           /\ status' = -1
           /\ repairType' = 1)]_vars

\* The atom walk about to start right after an 'isom' header of size 1 that
\* was found one byte into the file.
C33_Witness ==
    /\ pc = "moov"
    /\ first4Bytes = W(1)
    /\ next4Bytes = fourcc_isom
    /\ pos = 9
    /\ repairType = 1
    /\ status = -1

---------------------------------------------------------------------------
(* C34: the classification terminates.                                     *)

\* The steps of main before the output file is opened: the scan of the
\* start of the file, the atom walk with its nested walk, the search for
\* video and the skip over the JPEG previews.
C34_Classifying ==
    pc \in {"start", "classify", "moov", "free", "mdat", "nested", "video",
            "vscan", "jpeg"}

\* C34: on every input the classification comes to an end, at the output
\* file or at the failure of the run; each round of its four loops (scan of
\* the file start, nested walk, search for video, skip of the previews)
\* that does not leave the loop moves the cursor forward and leaves it
\* within the file, and each round of the nested walk moves it by at least
\* the three headers it has read.
C34_ClassificationEnds ==
    /\ <>(~C34_Classifying)
    /\ [][(C34_Classifying /\ pc' = pc)
          => (pos' > pos /\ pos' <= Len(input))]_vars
    /\ [][(pc = "nested" /\ pc' = "nested") => pos' >= pos + 24]_vars

\* The end of a classification whose nested walk went round twice: the
\* second 'ftyp' inside 'mdat', of size 9, is the one kept.
C34_Witness ==
    /\ pc = "open"
    /\ repairType = 1
    /\ first4Bytes = W(12)
    /\ repairType1FtypSize = W(9)
    /\ pos = 74

=============================================================================
